---- MODULE Spec2Model ----
(***************************************************************************)
(* Model of the persisted store of the business directory (src/lib/data.ts)*)
(* Collections live in browser-local storage under five keys; every        *)
(* operation reads a collection, changes it in memory and writes the whole *)
(* collection back.                                                        *)
(*                                                                         *)
(* Time is counted in ticks; one hour is Hour ticks.  Ratings are counted  *)
(* in half stars (rating 4.5 is 9) and averageRating in tenths (4.7 is 47).*)
(***************************************************************************)
EXTENDS Integers, Sequences, FiniteSets, TLC

VARIABLES stored, businesses, reviews, folders, deals, session, now, uuid, ret,
          geo, manualLocation, pendingPositions, pendingLookups, requested,
          osmBusinesses, isLoadingBusinesses, businessError, searchRadius,
          locationInfo, fetches, geocodes

\* the state of the location context: the state of the geolocation hook, the
\* manual location, the getCurrentPosition calls and the IP lookups in flight
\* and the number of calls of requestLocation so far
locationVars == <<geo, manualLocation, pendingPositions, pendingLookups, requested>>

\* the nearby businesses of the location context: the list shown, the loading
\* flag, the error, the search radius, the label of the location, and the
\* fetchBusinesses and fetchLocationInfo calls in flight
nearbyVars == <<osmBusinesses, isLoadingBusinesses, businessError, searchRadius,
                locationInfo, fetches, geocodes>>

vars == <<stored, businesses, reviews, folders, deals, session, now, uuid, ret,
          geo, manualLocation, pendingPositions, pendingLookups, requested,
          osmBusinesses, isLoadingBusinesses, businessError, searchRadius,
          locationInfo, fetches, geocodes>>

(***************************************************************************)
(* Bounds of the model.                                                    *)
(***************************************************************************)
\* ticks per hour (granularity of the clock)
Hour == 2
\* reviews added, helpful marks per review and redemptions in the store
\* specification
MaxStoreAdded == 1
MaxMarks == 2
MaxStoreRedeems == 1
\* reviews added on top of the seed in the ratings specification
MaxAdded == 3
\* reviews added on top of the seed in the rate-limit specification
MaxRateAdded == 7
\* markReviewHelpful calls applied to one review
MaxHelpfulAdds == 1
\* bookmark folders created by the user
MaxFolders == 1
\* calls of requestLocation: the one on mount and those the user asks for
MaxRequests == 3
\* fetches of the nearby businesses in flight when the user starts another
MaxFetches == 2

Day == 24 * Hour

\* the rate limit of addReview
MaxReviewsPerHour == 5

\* the value of lastReviewTime when it is the empty string
NoTime == -1

\* ticks of a date given as day number since 2024-09-01, hour and minute
TimeOf(day, hh, mm) == day * Day + hh * Hour + (mm * Hour) \div 60

\* instants at which the application is first opened: 2024-11-25 and 2026-11-02
StartTimes == {TimeOf(85, 12, 0), TimeOf(792, 12, 0)}

(***************************************************************************)
(* Storage keys.                                                           *)
(***************************************************************************)
STORAGE_KEYS == [BUSINESSES |-> "bsbb_businesses", REVIEWS |-> "bsbb_reviews",
                 BOOKMARKS |-> "bsbb_bookmarks", DEALS |-> "bsbb_deals",
                 SESSION |-> "bsbb_session"]

AllKeys == {STORAGE_KEYS.BUSINESSES, STORAGE_KEYS.REVIEWS, STORAGE_KEYS.BOOKMARKS,
            STORAGE_KEYS.DEALS, STORAGE_KEYS.SESSION}

(***************************************************************************)
(* Seed data.                                                              *)
(***************************************************************************)
Biz(id, name, category, subcategory, priceLevel, averageRating, totalReviews) ==
    [id |-> id, name |-> name, category |-> category, subcategory |-> subcategory,
     priceLevel |-> priceLevel, averageRating |-> averageRating,
     totalReviews |-> totalReviews]

generateMockBusinesses ==
    << Biz("1", "The Rustic Spoon", "food", "Restaurants", 3, 47, 234),
       Biz("2", "Bean & Brew Coffee House", "food", "Cafes", 2, 48, 512),
       Biz("3", "Sweet Delights Bakery", "food", "Bakeries", 2, 49, 389),
       Biz("4", "Tech Haven Electronics", "retail", "Electronics", 3, 45, 156),
       Biz("5", "Page Turner Books", "retail", "Books", 2, 49, 278),
       Biz("6", "Bloom Boutique", "retail", "Clothing", 3, 46, 198),
       Biz("7", "Wellness Center & Spa", "services", "Beauty & Spa", 4, 48, 445),
       Biz("8", "Quick Fix Auto Care", "services", "Automotive", 2, 47, 321),
       Biz("9", "Harmony Music Studio", "education", "Music Lessons", 2, 49, 167),
       Biz("10", "FitLife Gym & Training", "entertainment", "Fitness", 3, 46, 523),
       Biz("11", "Green Thumb Garden Center", "retail", "Home Goods", 2, 48, 289),
       Biz("12", "Bright Minds Tutoring", "education", "Tutoring", 3, 49, 178) >>

Rev(id, businessId, userId, rating, helpful, createdAt) ==
    [id |-> id, businessId |-> businessId, userId |-> userId, userName |-> userId,
     rating |-> rating, comment |-> <<>>, helpful |-> helpful,
     createdAt |-> createdAt, verified |-> TRUE]

generateMockReviews ==
    << Rev("r1", "1", "u1", 10, 24, TimeOf(75, 18, 30)),
       Rev("r2", "1", "u2", 9, 15, TimeOf(70, 19, 45)),
       Rev("r3", "2", "u3", 10, 42, TimeOf(80, 10, 15)),
       Rev("r4", "2", "u4", 9, 18, TimeOf(78, 14, 20)),
       Rev("r5", "3", "u5", 10, 67, TimeOf(57, 11, 0)),
       Rev("r6", "4", "u6", 8, 31, TimeOf(65, 16, 30)),
       Rev("r7", "5", "u7", 10, 45, TimeOf(72, 13, 0)),
       Rev("r8", "6", "u8", 9, 22, TimeOf(68, 15, 45)),
       Rev("r9", "7", "u9", 10, 38, TimeOf(76, 17, 0)),
       Rev("r10", "8", "u10", 10, 56, TimeOf(79, 9, 30)),
       Rev("r11", "9", "u11", 10, 29, TimeOf(74, 18, 0)),
       Rev("r12", "10", "u12", 8, 19, TimeOf(77, 7, 15)) >>

Deal(id, businessId, discountPercent, expiresAt, validFrom, redemptions, maxRedemptions) ==
    [id |-> id, businessId |-> businessId, discountPercent |-> discountPercent,
     expiresAt |-> expiresAt, validFrom |-> validFrom, isActive |-> TRUE,
     redemptions |-> redemptions, maxRedemptions |-> maxRedemptions]

\* the relative dates are taken from the clock at the time of the call
generateMockDeals(t) ==
    << Deal("d1", "1", 20, t + 14 * Day, t - 2 * Day, 45, 100),
       Deal("d2", "2", 0, t + 30 * Day, t - 5 * Day, 234, 500),
       Deal("d3", "3", 15, t + 60 * Day, t - 10 * Day, 28, 100),
       Deal("d4", "4", 10, t + 90 * Day, TimeOf(0, 10, 0), 67, 200),
       Deal("d5", "5", 25, t + 21 * Day, t - 3 * Day, 156, 300),
       Deal("d6", "7", 30, t + 45 * Day, TimeOf(49, 10, 0), 89, 150),
       Deal("d7", "8", 33, t + 30 * Day, t - 1 * Day, 112, 200),
       Deal("d8", "10", 17, t + 35 * Day, TimeOf(91, 10, 0), 45, 100) >>

DefaultFolder == [id |-> "default", name |-> "Favorites", color |-> "#3b82f6",
                  businessIds |-> <<>>, notes |-> <<>>]

NewSession == [reviewsThisHour |-> 0, lastReviewTime |-> NoTime,
               onboardingComplete |-> FALSE, highContrastMode |-> FALSE]

(***************************************************************************)
(* Helpers on sequences.                                                   *)
(***************************************************************************)
\* Array.prototype.findIndex: the first index whose element has the id, 0 if none
FindIndex(s, id) ==
    IF \E i \in 1..Len(s) : s[i].id = id
    THEN CHOOSE i \in 1..Len(s) : s[i].id = id /\ \A j \in 1..(i - 1) : s[j].id # id
    ELSE 0

\* a membership test that never finds the element
IncludesNever(s, x) == FALSE

\* Array.prototype.includes
Includes(s, x) == \E i \in 1..Len(s) : s[i] = x

RECURSIVE SumRatings(_)
SumRatings(s) == IF s = <<>> THEN 0 ELSE Head(s).rating + SumRatings(Tail(s))

\* a fresh crypto.randomUUID() value
FreshId == "uuid-" \o ToString(uuid)

NoRet == [op |-> "none", ok |-> TRUE, msg |-> "", arg |-> ""]

\* a coordinate that is null
Null == 9999999

\* the search radius of a new location context, in metres
DefaultRadius == 2000

\* a location label that is null
NoInfo == [city |-> "", state |-> "", displayName |-> ""]

\* the initial state of the geolocation hook
GeolocationState(isSupported) ==
    [latitude |-> Null, longitude |-> Null, error |-> "", isLoading |-> TRUE,
     isSupported |-> isSupported]

\* a manual location that is null
NoLocation == [lat |-> Null, lon |-> Null]

(***************************************************************************)
(* Initial state: empty browser storage.                                   *)
(***************************************************************************)
Init ==
    /\ stored = {}
    /\ businesses = <<>>
    /\ reviews = <<>>
    /\ folders = <<>>
    /\ deals = <<>>
    /\ session = NewSession
    /\ now \in StartTimes
    /\ uuid = 0
    /\ ret = NoRet
    /\ geo = GeolocationState(TRUE)
    /\ manualLocation = NoLocation
    /\ pendingPositions = 0
    /\ pendingLookups = 0
    /\ requested = 0
    /\ osmBusinesses = <<>>
    /\ isLoadingBusinesses = FALSE
    /\ businessError = ""
    /\ searchRadius = DefaultRadius
    /\ locationInfo = NoInfo
    /\ fetches = <<>>
    /\ geocodes = <<>>

\* the mount effect of the application context has run
Mounted == stored = AllKeys

(***************************************************************************)
(* initializeData: seeds every collection whose key is absent.             *)
(***************************************************************************)
\* an initialization that writes the seed whether or not the key is present
initializeDataOverwriting ==
    /\ stored' = AllKeys
    /\ businesses' = generateMockBusinesses
    /\ reviews' = generateMockReviews
    /\ deals' = generateMockDeals(now)
    /\ folders' = <<DefaultFolder>>
    /\ session' = NewSession
    /\ ret' = [op |-> "initializeData", ok |-> TRUE, msg |-> "", arg |-> ""]
    /\ UNCHANGED <<now, uuid, locationVars, nearbyVars>>

initializeData ==
    /\ stored' = AllKeys
    /\ businesses' = IF STORAGE_KEYS.BUSINESSES \in stored THEN businesses
                     ELSE generateMockBusinesses
    /\ reviews' = IF STORAGE_KEYS.REVIEWS \in stored THEN reviews
                  ELSE generateMockReviews
    /\ deals' = IF STORAGE_KEYS.DEALS \in stored THEN deals
                ELSE generateMockDeals(now)
    /\ folders' = IF STORAGE_KEYS.BOOKMARKS \in stored THEN folders
                  ELSE <<DefaultFolder>>
    /\ session' = IF STORAGE_KEYS.SESSION \in stored THEN session
                  ELSE NewSession
    /\ ret' = [op |-> "initializeData", ok |-> TRUE, msg |-> "", arg |-> ""]
    /\ UNCHANGED <<now, uuid, locationVars, nearbyVars>>

(***************************************************************************)
(* The clock.                                                              *)
(***************************************************************************)
Advance(dt) ==
    /\ now' = now + dt
    /\ ret' = NoRet
    /\ UNCHANGED <<stored, businesses, reviews, folders, deals, session, uuid, locationVars, nearbyVars>>

(***************************************************************************)
(* Comments are sequences of characters.  The three spam patterns of       *)
(* addReview, all with the i flag.                                         *)
(***************************************************************************)
UpperCase ==
    <<"A", "B", "C", "D", "E", "F", "G", "H", "I", "J", "K", "L", "M",
      "N", "O", "P", "Q", "R", "S", "T", "U", "V", "W", "X", "Y", "Z">>
LowerCase ==
    <<"a", "b", "c", "d", "e", "f", "g", "h", "i", "j", "k", "l", "m",
      "n", "o", "p", "q", "r", "s", "t", "u", "v", "w", "x", "y", "z">>

\* String.prototype.toLowerCase on one character
ToLower(ch) ==
    IF \E i \in 1..Len(UpperCase) : UpperCase[i] = ch
    THEN LowerCase[CHOOSE i \in 1..Len(UpperCase) : UpperCase[i] = ch]
    ELSE ch

\* does the literal lit occur in c at position i, ignoring case
MatchAt(c, i, lit) ==
    /\ i + Len(lit) - 1 <= Len(c)
    /\ \A k \in 1..Len(lit) : ToLower(c[i + k - 1]) = lit[k]

\* /(.)\1{4,}/i
RepeatedChars(c) ==
    \E i \in 1..(Len(c) - 4) :
        /\ c[i] # "\n"
        /\ \A k \in 1..4 : ToLower(c[i + k]) = ToLower(c[i])

\* /https?:\/\//i
UrlPattern(c) ==
    \E i \in 1..Len(c) :
        \/ MatchAt(c, i, <<"h", "t", "t", "p", ":", "/", "/">>)
        \/ MatchAt(c, i, <<"h", "t", "t", "p", "s", ":", "/", "/">>)

\* /<[^>]+>/i
HtmlTag(c) ==
    \E i \in 1..Len(c) : \E j \in (i + 2)..Len(c) :
        /\ c[i] = "<"
        /\ c[j] = ">"
        /\ \A k \in (i + 1)..(j - 1) : c[k] # ">"

spamPatterns(c) == RepeatedChars(c) \/ UrlPattern(c) \/ HtmlTag(c)

(***************************************************************************)
(* Review operations.                                                      *)
(***************************************************************************)
getReviewsByBusiness(rs, businessId) ==
    SelectSeq(rs, LAMBDA r : r.businessId = businessId)

\* the average truncated to one decimal instead of rounded
RoundedAverageTruncating(sum, n) == (10 * sum) \div (2 * n)

\* Math.round(avgRating * 10) of the mean of n ratings whose sum is sum half
\* stars: avgRating * 10 = 5 * sum / n, rounded half up
RoundedAverage(sum, n) == (10 * sum + n) \div (2 * n)

RateLimitMessage == "You have reached the maximum of 5 reviews per hour. Please try again later."
SpamMessage == "Your review contains content that appears to be spam. Please revise and try again."
SuccessMessage == "Your review has been submitted successfully!"
NoSessionMessage == "Session not initialized"

\* the returned {success, message}, with the argument of the call
Result(ok, msg, arg) == [op |-> "addReview", ok |-> ok, msg |-> msg, arg |-> arg]

\* the rate-limit test letting one review too many through
RateLimitedOffByOne(s) ==
    /\ s.lastReviewTime # NoTime
    /\ (now - s.lastReviewTime) < Hour
    /\ s.reviewsThisHour > MaxReviewsPerHour

\* the rate-limit test of addReview on the session read from storage
RateLimited(s) ==
    /\ s.lastReviewTime # NoTime
    /\ (now - s.lastReviewTime) < Hour
    /\ s.reviewsThisHour >= MaxReviewsPerHour

\* the rate-limit block without the reset of the counter
AfterResetKeeping(s) == s

\* the in-memory session after the rate-limit block
AfterReset(s) ==
    IF s.lastReviewTime # NoTime /\ (now - s.lastReviewTime) >= Hour
    THEN [s EXCEPT !.reviewsThisHour = 0]
    ELSE s

\* an insertion at the end of the list
PushBack(rs, r) == Append(rs, r)

\* Array.prototype.unshift
Unshift(rs, r) == <<r>> \o rs

\* the businesses collection after the rating of businessId is recomputed
\* from the review list rs
UpdateRating(bs, rs, businessId) ==
    LET businessReviews == getReviewsByBusiness(rs, businessId)
        businessIndex == FindIndex(bs, businessId)
    IN  IF businessIndex # 0
        THEN [bs EXCEPT ![businessIndex] =
                 [@ EXCEPT !.averageRating =
                               RoundedAverage(SumRatings(businessReviews), Len(businessReviews)),
                           !.totalReviews = Len(businessReviews)]]
        ELSE bs

\* an addReview that saves the session with its reset counter before it
\* rejects a comment as spam
addReviewSavingReset(review) ==
    IF STORAGE_KEYS.SESSION \notin stored
    THEN /\ ret' = Result(FALSE, NoSessionMessage, review)
         /\ UNCHANGED <<stored, businesses, reviews, folders, deals, session, now, uuid, locationVars, nearbyVars>>
    ELSE IF RateLimited(session)
    THEN /\ ret' = Result(FALSE, RateLimitMessage, review)
         /\ UNCHANGED <<stored, businesses, reviews, folders, deals, session, now, uuid, locationVars, nearbyVars>>
    ELSE IF spamPatterns(review.comment)
    THEN /\ ret' = Result(FALSE, SpamMessage, review)
         /\ session' = AfterReset(session)
         /\ UNCHANGED <<stored, businesses, reviews, folders, deals, now, uuid, locationVars, nearbyVars>>
    ELSE LET newReview == [id |-> FreshId, businessId |-> review.businessId,
                           userId |-> review.userId, userName |-> review.userName,
                           rating |-> review.rating, comment |-> review.comment,
                           helpful |-> 0, createdAt |-> now, verified |-> FALSE]
             rs == Unshift(reviews, newReview)
             s == AfterReset(session)
         IN  /\ reviews' = rs
             /\ stored' = stored \cup {STORAGE_KEYS.REVIEWS}
             /\ businesses' = UpdateRating(businesses, rs, review.businessId)
             /\ session' = [s EXCEPT !.reviewsThisHour = @ + 1, !.lastReviewTime = now]
             /\ uuid' = uuid + 1
             /\ ret' = Result(TRUE, SuccessMessage, review)
             /\ UNCHANGED <<folders, deals, now, locationVars, nearbyVars>>

addReview(review) ==
    IF STORAGE_KEYS.SESSION \notin stored
    THEN /\ ret' = Result(FALSE, NoSessionMessage, review)
         /\ UNCHANGED <<stored, businesses, reviews, folders, deals, session, now, uuid, locationVars, nearbyVars>>
    ELSE IF RateLimited(session)
    THEN /\ ret' = Result(FALSE, RateLimitMessage, review)
         /\ UNCHANGED <<stored, businesses, reviews, folders, deals, session, now, uuid, locationVars, nearbyVars>>
    ELSE IF spamPatterns(review.comment)
    THEN /\ ret' = Result(FALSE, SpamMessage, review)
         /\ UNCHANGED <<stored, businesses, reviews, folders, deals, session, now, uuid, locationVars, nearbyVars>>
    ELSE LET newReview == [id |-> FreshId, businessId |-> review.businessId,
                           userId |-> review.userId, userName |-> review.userName,
                           rating |-> review.rating, comment |-> review.comment,
                           helpful |-> 0, createdAt |-> now, verified |-> FALSE]
             rs == Unshift(reviews, newReview)
             s == AfterReset(session)
         IN  /\ reviews' = rs
             /\ stored' = stored \cup {STORAGE_KEYS.REVIEWS}
             /\ businesses' = UpdateRating(businesses, rs, review.businessId)
             /\ session' = [s EXCEPT !.reviewsThisHour = @ + 1, !.lastReviewTime = now]
             /\ uuid' = uuid + 1
             /\ ret' = Result(TRUE, SuccessMessage, review)
             /\ UNCHANGED <<folders, deals, now, locationVars, nearbyVars>>

\* a mark that stores 1 instead of adding 1
markReviewHelpfulSetting(reviewId) ==
    LET reviewIndex == FindIndex(reviews, reviewId)
    IN  /\ reviews' = IF reviewIndex # 0
                      THEN [reviews EXCEPT ![reviewIndex].helpful = 1]
                      ELSE reviews
        /\ ret' = [op |-> "markReviewHelpful", ok |-> reviewIndex # 0, msg |-> "",
                   arg |-> reviewId]
        /\ UNCHANGED <<stored, businesses, folders, deals, session, now, uuid, locationVars, nearbyVars>>

\* a mark that lands on the first review of the list instead of the found one
markReviewHelpfulFirst(reviewId) ==
    LET reviewIndex == FindIndex(reviews, reviewId)
    IN  /\ reviews' = IF reviewIndex # 0
                      THEN [reviews EXCEPT ![1].helpful = @ + 1]
                      ELSE reviews
        /\ ret' = [op |-> "markReviewHelpful", ok |-> reviewIndex # 0, msg |-> "",
                   arg |-> reviewId]
        /\ UNCHANGED <<stored, businesses, folders, deals, session, now, uuid, locationVars, nearbyVars>>

markReviewHelpful(reviewId) ==
    LET reviewIndex == FindIndex(reviews, reviewId)
    IN  /\ reviews' = IF reviewIndex # 0
                      THEN [reviews EXCEPT ![reviewIndex].helpful = @ + 1]
                      ELSE reviews
        /\ ret' = [op |-> "markReviewHelpful", ok |-> reviewIndex # 0, msg |-> "",
                   arg |-> reviewId]
        /\ UNCHANGED <<stored, businesses, folders, deals, session, now, uuid, locationVars, nearbyVars>>

\* updateSession: the stored session with the given fields replaced
updateSession(updates) ==
    /\ session' = [f \in DOMAIN session |->
                      IF f \in DOMAIN updates THEN updates[f] ELSE session[f]]
    /\ stored' = stored \cup {STORAGE_KEYS.SESSION}
    /\ ret' = [op |-> "updateSession", ok |-> TRUE, msg |-> "", arg |-> ""]
    /\ UNCHANGED <<businesses, reviews, folders, deals, now, uuid, locationVars, nearbyVars>>

(***************************************************************************)
(* Inputs of the review specifications.                                    *)
(***************************************************************************)
\* the instant at which the review specifications open the application
ReviewStart == TimeOf(792, 12, 0)

InitReviews == Init /\ now = ReviewStart

GoodComment == <<"g", "r", "e", "a", "t", " ", "f", "o", "o", "d">>
TagComment == <<"<", "b", ">", "h", "i">>
UrlComment == <<"H", "t", "t", "p", "s", ":", "/", "/", "a">>
RepeatComment == <<"g", "o", "o", "O", "o", "o", "d">>

ReviewInput(businessId, rating, comment) ==
    [businessId |-> businessId, userId |-> "user", userName |-> "Sam",
     rating |-> rating, comment |-> comment]

\* the reviews added since the seed, most recent first
Added == SubSeq(reviews, 1, Len(reviews) - Len(generateMockReviews))

\* the helpful count a review had when it entered the store
BaseHelpful(reviewId) ==
    LET i == FindIndex(generateMockReviews, reviewId)
    IN  IF i # 0 THEN generateMockReviews[i].helpful ELSE 0

CanMarkHelpful(reviewId) ==
    LET i == FindIndex(reviews, reviewId)
    IN  i # 0 => reviews[i].helpful < BaseHelpful(reviewId) + MaxHelpfulAdds

(***************************************************************************)
(* Specification of the ratings: reviews of several businesses with        *)
(* several ratings.                                                        *)
(***************************************************************************)
RatingBusinessIds == {"1", "4", "no-such-business"}
RatingInputs == {1, 9, 10}
HelpfulIds == {"r1", "uuid-0", "no-such-review"}

AddRatedReview ==
    /\ Mounted
    /\ Len(Added) < MaxAdded
    /\ \E b \in RatingBusinessIds, r \in RatingInputs :
           addReview(ReviewInput(b, r, GoodComment))

MarkHelpful ==
    /\ Mounted
    /\ \E id \in HelpfulIds : CanMarkHelpful(id) /\ markReviewHelpful(id)

HourPasses ==
    /\ now < ReviewStart + Hour
    /\ Advance(Hour)

NextRatings == initializeData \/ AddRatedReview \/ MarkHelpful \/ HourPasses

SpecRatings == InitReviews /\ [][NextRatings]_vars

(***************************************************************************)
(* Specification of the rate limit: many reviews of one business at        *)
(* chosen instants.                                                        *)
(***************************************************************************)
RateComments == {GoodComment, TagComment}
RateSteps == {1, Hour}
MaxElapsed == 2 * Hour

AddTimedReview ==
    /\ Mounted
    /\ Len(Added) < MaxRateAdded
    /\ \E c \in RateComments : addReview(ReviewInput("1", 10, c))

TimePasses ==
    \E dt \in RateSteps :
        /\ now + dt <= ReviewStart + MaxElapsed
        /\ Advance(dt)

completeOnboarding ==
    /\ Mounted
    /\ updateSession([onboardingComplete |-> TRUE])

NextRate == initializeData \/ AddTimedReview \/ TimePasses \/ completeOnboarding

SpecRate == InitReviews /\ [][NextRate]_vars

(***************************************************************************)
(* Properties of the ratings.                                              *)
(***************************************************************************)
\* the positions of the stored reviews that reference the business
ReviewsOf(businessId) == {i \in 1..Len(reviews) : reviews[i].businessId = businessId}

RECURSIVE RatingSum(_)
RatingSum(S) ==
    IF S = {} THEN 0
    ELSE LET i == CHOOSE j \in S : TRUE IN reviews[i].rating + RatingSum(S \ {i})

\* a (in tenths) is the mean of n ratings with the given sum (in half stars)
\* rounded to one decimal, halves rounded up: a - 1/2 <= 5 * sum / n < a + 1/2
IsRoundedMean(a, sum, n) ==
    /\ n > 0
    /\ 2 * n * a - n <= 10 * sum
    /\ 10 * sum < 2 * n * a + n

RatingConsistent(b) ==
    /\ IsRoundedMean(b.averageRating, RatingSum(ReviewsOf(b.id)), Cardinality(ReviewsOf(b.id)))
    /\ b.totalReviews = Cardinality(ReviewsOf(b.id))

\* C1: right after a successful addReview for a business of the store, the
\* averageRating of that business is the mean of the ratings of all stored
\* reviews of the business rounded to one decimal, and its totalReviews is
\* the number of those reviews.
AddReviewRecomputesRating ==
    (ret.op = "addReview" /\ ret.ok) =>
        \A i \in 1..Len(businesses) :
            businesses[i].id = ret.arg.businessId => RatingConsistent(businesses[i])

\* a review of 4.5 stars was added to business 4, whose only other review has
\* 4 stars: the mean 4.25 is rounded to 4.3
AddReviewRoundsHalfUp ==
    /\ ret.op = "addReview" /\ ret.ok /\ ret.arg.businessId = "4"
    /\ Cardinality(ReviewsOf("4")) = 2
    /\ businesses[4].averageRating = 43
    /\ businesses[4].totalReviews = 2

\* C2: in every state after initializeData, averageRating of every business
\* is the rounded mean of the ratings of the stored reviews that reference
\* it and totalReviews is their number.
RatingsAlwaysConsistent ==
    Mounted => \A i \in 1..Len(businesses) : RatingConsistent(businesses[i])

(***************************************************************************)
(* Properties of the rate limit.                                           *)
(***************************************************************************)
\* C3: the stored reviewsThisHour never exceeds 5, and any six accepted
\* reviews span at least one hour (no window shorter than an hour holds more
\* than 5 accepted reviews).
RateLimitHolds ==
    /\ session.reviewsThisHour <= MaxReviewsPerHour
    /\ \A i \in 1..Len(Added) : \A j \in 1..Len(Added) :
           j >= i + MaxReviewsPerHour => Added[i].createdAt - Added[j].createdAt >= Hour

\* five reviews were accepted at one instant and a later addReview inside the
\* hour was refused
RateLimitReached ==
    /\ Len(Added) = MaxReviewsPerHour
    /\ session.reviewsThisHour = MaxReviewsPerHour
    /\ ret.op = "addReview" /\ ~ret.ok /\ ret.msg = RateLimitMessage
    /\ now > session.lastReviewTime

\* C4: with reviewsThisHour = 5, a non-spam addReview less than an hour
\* after lastReviewTime is rejected with the rate-limit message, and one
\* issued an hour or more after lastReviewTime succeeds and leaves
\* reviewsThisHour = 1.
SixthReviewScenario ==
    [][ ( /\ Mounted
          /\ session.reviewsThisHour = MaxReviewsPerHour
          /\ session.lastReviewTime # NoTime
          /\ ret'.op = "addReview"
          /\ ~spamPatterns(ret'.arg.comment) )
        => IF now - session.lastReviewTime < Hour
           THEN ~ret'.ok /\ ret'.msg = RateLimitMessage /\ reviews' = reviews
           ELSE ret'.ok /\ session'.reviewsThisHour = 1 /\ Len(reviews') = Len(reviews) + 1
      ]_vars

\* the sixth review was accepted after the hour had passed
SixthReviewAccepted ==
    /\ Len(Added) = MaxReviewsPerHour + 1
    /\ ret.op = "addReview" /\ ret.ok
    /\ session.reviewsThisHour = 1
    /\ Added[1].createdAt - Added[2].createdAt >= Hour

(***************************************************************************)
(* Deal operations.                                                        *)
(***************************************************************************)
\* getActiveDeals at the instant t
getActiveDeals(t) ==
    SelectSeq(deals, LAMBDA d : d.expiresAt > t /\ d.redemptions < d.maxRedemptions)

getDealsByBusiness(t, businessId) ==
    SelectSeq(getActiveDeals(t), LAMBDA d : d.businessId = businessId)

\* a redemption test that lets the counter pass the maximum
CanRedeemInclusive(d) == d.redemptions <= d.maxRedemptions

\* a redemption test that also looks at the validity period
CanRedeemWhileValid(d) ==
    d.redemptions < d.maxRedemptions /\ d.validFrom <= now /\ now <= d.expiresAt

\* the test of redeemDeal on the deal it found
CanRedeem(d) == d.redemptions < d.maxRedemptions

redeemDeal(dealId) ==
    LET dealIndex == FindIndex(deals, dealId)
    IN  IF dealIndex # 0 /\ CanRedeem(deals[dealIndex])
        THEN /\ deals' = [deals EXCEPT ![dealIndex].redemptions = @ + 1]
             /\ stored' = stored \cup {STORAGE_KEYS.DEALS}
             /\ ret' = [op |-> "redeemDeal", ok |-> TRUE, msg |-> "", arg |-> dealId]
             /\ UNCHANGED <<businesses, reviews, folders, session, now, uuid, locationVars, nearbyVars>>
        ELSE /\ ret' = [op |-> "redeemDeal", ok |-> FALSE, msg |-> "", arg |-> dealId]
             /\ UNCHANGED <<stored, businesses, reviews, folders, deals, session, now, uuid, locationVars, nearbyVars>>

(***************************************************************************)
(* Specification of the deals: two deals are redeemed up to their maximum  *)
(* while the clock passes the start and the end of their validity.         *)
(***************************************************************************)
RedeemIds == {"d1", "d8", "no-such-deal"}

DealById(id) == deals[FindIndex(deals, id)]

\* the instants the clock is moved to
DealInstants ==
    {DealById("d8").validFrom, DealById("d1").expiresAt, DealById("d1").expiresAt + 1}

Redeem ==
    /\ Mounted
    /\ \E id \in RedeemIds : redeemDeal(id)

ClockMoves ==
    /\ Mounted
    /\ \E t \in DealInstants : t > now /\ Advance(t - now)

NextDeals == initializeData \/ Redeem \/ ClockMoves

SpecDeals == Init /\ [][NextDeals]_vars

(***************************************************************************)
(* Properties of the deals.                                                *)
(***************************************************************************)
\* C5: redemptions never exceeds maxRedemptions; a redeemDeal on a deal
\* whose redemptions equals maxRedemptions returns false and leaves the
\* counter unchanged, and one on a deal below its maximum returns true and
\* increments the counter by exactly 1.
RedemptionsCapped ==
    /\ [](\A i \in 1..Len(deals) : deals[i].redemptions <= deals[i].maxRedemptions)
    /\ [][ (ret'.op = "redeemDeal" /\ FindIndex(deals, ret'.arg) # 0)
           => LET i == FindIndex(deals, ret'.arg)
              IN  IF deals[i].redemptions < deals[i].maxRedemptions
                  THEN ret'.ok /\ deals'[i].redemptions = deals[i].redemptions + 1
                  ELSE ~ret'.ok /\ deals'[i].redemptions = deals[i].redemptions
         ]_vars

\* a redeemDeal on the fully redeemed deal d1 was refused
RedeemRefusedAtMaximum ==
    /\ Mounted
    /\ ret.op = "redeemDeal" /\ ret.arg = "d1" /\ ~ret.ok
    /\ DealById("d1").redemptions = DealById("d1").maxRedemptions

\* C6: redeemDeal changes nothing but the redemptions field of the deal with
\* the given id, and it succeeds exactly when that deal exists and is below
\* its maximum, whatever its isActive flag and whether or not the current
\* time lies inside its validity period.
RedeemTouchesOnlyCounter ==
    [][ ret'.op = "redeemDeal"
        => /\ UNCHANGED <<stored, businesses, reviews, folders, session, now, uuid>>
           /\ Len(deals') = Len(deals)
           /\ \A i \in 1..Len(deals) :
                 /\ [deals'[i] EXCEPT !.redemptions = 0] = [deals[i] EXCEPT !.redemptions = 0]
                 /\ deals[i].id # ret'.arg => deals'[i] = deals[i]
           /\ ret'.ok <=> \E i \in 1..Len(deals) :
                             /\ deals[i].id = ret'.arg
                             /\ deals[i].redemptions < deals[i].maxRedemptions
      ]_vars

\* deal d1 was redeemed after it had expired and deal d8 was redeemed before
\* its validity had started
RedeemedOutsideValidity ==
    /\ Mounted
    /\ ret.op = "redeemDeal" /\ ret.ok /\ ret.arg = "d1"
    /\ now > DealById("d1").expiresAt
    /\ DealById("d1").redemptions > 45
    /\ DealById("d8").redemptions > 45

\* C7: getActiveDeals returns exactly the stored deals with isActive true,
\* validFrom <= now <= expiresAt and redemptions < maxRedemptions, and
\* getDealsByBusiness those of them that belong to the business.
ActiveForDisplay(d) ==
    /\ d.isActive
    /\ d.validFrom <= now /\ now <= d.expiresAt
    /\ d.redemptions < d.maxRedemptions

ActiveDealsAsSpecified ==
    /\ getActiveDeals(now) = SelectSeq(deals, ActiveForDisplay)
    /\ \A i \in 1..Len(businesses) :
          getDealsByBusiness(now, businesses[i].id) =
              SelectSeq(deals, LAMBDA d : ActiveForDisplay(d) /\ d.businessId = businesses[i].id)

(***************************************************************************)
(* Bookmark operations.  businessIds is a list and notes a map from        *)
(* business ids to texts.                                                  *)
(***************************************************************************)
Void(op, arg) == [op |-> op, ok |-> TRUE, msg |-> "", arg |-> arg]

createBookmarkFolder(name, color) ==
    LET newFolder == [id |-> FreshId, name |-> name, color |-> color,
                      businessIds |-> <<>>, notes |-> <<>>]
    IN  /\ folders' = Append(folders, newFolder)
        /\ stored' = stored \cup {STORAGE_KEYS.BOOKMARKS}
        /\ uuid' = uuid + 1
        /\ ret' = Void("createBookmarkFolder", newFolder.id)
        /\ UNCHANGED <<businesses, reviews, deals, session, now, locationVars, nearbyVars>>

addBookmark(folderId, businessId) ==
    LET folderIndex == FindIndex(folders, folderId)
    IN  /\ folders' = IF folderIndex # 0 /\ ~Includes(folders[folderIndex].businessIds, businessId)
                      THEN [folders EXCEPT ![folderIndex].businessIds = Append(@, businessId)]
                      ELSE folders
        /\ ret' = Void("addBookmark", <<folderId, businessId>>)
        /\ UNCHANGED <<stored, businesses, reviews, deals, session, now, uuid, locationVars, nearbyVars>>

\* a removal that leaves the note of the business in place
NotesKeeping(notes, businessId) == notes

\* delete notes[businessId]
NotesWithout(notes, businessId) ==
    [id \in (DOMAIN notes) \ {businessId} |-> notes[id]]

removeBookmark(folderId, businessId) ==
    LET folderIndex == FindIndex(folders, folderId)
    IN  /\ folders' = IF folderIndex # 0
                      THEN [folders EXCEPT
                              ![folderIndex].businessIds = SelectSeq(@, LAMBDA id : id # businessId),
                              ![folderIndex].notes = NotesWithout(@, businessId)]
                      ELSE folders
        /\ ret' = Void("removeBookmark", <<folderId, businessId>>)
        /\ UNCHANGED <<stored, businesses, reviews, deals, session, now, uuid, locationVars, nearbyVars>>

\* a lookup in the first folder only
isBookmarkedInFirstFolder(businessId) ==
    folders # <<>> /\ Includes(folders[1].businessIds, businessId)

isBookmarked(businessId) ==
    \E i \in 1..Len(folders) : Includes(folders[i].businessIds, businessId)

updateBookmarkNote(folderId, businessId, note) ==
    LET folderIndex == FindIndex(folders, folderId)
    IN  /\ folders' = IF folderIndex # 0
                      THEN [folders EXCEPT ![folderIndex].notes =
                               [id \in (DOMAIN @) \cup {businessId} |->
                                   IF id = businessId THEN note ELSE @[id]]]
                      ELSE folders
        /\ ret' = Void("updateBookmarkNote", <<folderId, businessId>>)
        /\ UNCHANGED <<stored, businesses, reviews, deals, session, now, uuid, locationVars, nearbyVars>>

\* a deletion without the protection of the default folder
IsProtectedNever(folderId) == FALSE

\* the early return of deleteBookmarkFolder
IsProtected(folderId) == folderId = "default"

deleteBookmarkFolder(folderId) ==
    /\ folders' = IF IsProtected(folderId) THEN folders
                  ELSE SelectSeq(folders, LAMBDA f : f.id # folderId)
    /\ stored' = IF IsProtected(folderId) THEN stored
                 ELSE stored \cup {STORAGE_KEYS.BOOKMARKS}
    /\ ret' = Void("deleteBookmarkFolder", folderId)
    /\ UNCHANGED <<businesses, reviews, deals, session, now, uuid, locationVars, nearbyVars>>

(***************************************************************************)
(* Specification of the bookmarks.                                         *)
(***************************************************************************)
BookmarkBusinessIds == {"1", "2"}
FolderIdInputs == {folders[i].id : i \in 1..Len(folders)} \cup {"default", "no-such-folder"}
NoteInputs == {"call first"}

CreateFolder ==
    /\ Mounted
    /\ uuid < MaxFolders
    /\ createBookmarkFolder("Lunch", "#ef4444")

AddBookmark ==
    /\ Mounted
    /\ \E f \in FolderIdInputs, b \in BookmarkBusinessIds : addBookmark(f, b)

RemoveBookmark ==
    /\ Mounted
    /\ \E f \in FolderIdInputs, b \in BookmarkBusinessIds : removeBookmark(f, b)

UpdateNote ==
    /\ Mounted
    /\ \E f \in FolderIdInputs, b \in BookmarkBusinessIds, n \in NoteInputs :
           updateBookmarkNote(f, b, n)

DeleteFolder ==
    /\ Mounted
    /\ \E f \in FolderIdInputs : deleteBookmarkFolder(f)

NextBookmarks ==
    initializeData \/ CreateFolder \/ AddBookmark \/ RemoveBookmark \/ UpdateNote \/ DeleteFolder

SpecBookmarks == InitReviews /\ [][NextBookmarks]_vars

(***************************************************************************)
(* Properties of the bookmarks.                                            *)
(***************************************************************************)
Elements(seq) == {seq[i] : i \in 1..Len(seq)}

\* C8: for every business id, isBookmarked(id) is true if and only if the id
\* is an element of businessIds of at least one stored folder.
IsBookmarkedIffInSomeFolder ==
    \A b \in BookmarkBusinessIds \cup {"3"} :
        isBookmarked(b) <=> b \in UNION {Elements(folders[i].businessIds) : i \in 1..Len(folders)}

\* business 1 is bookmarked in a created folder only
BookmarkedOutsideDefault ==
    /\ Len(folders) >= 2
    /\ folders[1].id = "default"
    /\ "1" \notin Elements(folders[1].businessIds)
    /\ "1" \in Elements(folders[2].businessIds)
    /\ isBookmarked("1")

\* C9: right after removeBookmark(folderId, businessId) the notes of that
\* folder have no entry for businessId and its businessIds does not contain
\* businessId, also when updateBookmarkNote had stored a note before.
RemoveBookmarkDropsNote ==
    /\ [](ret.op = "removeBookmark" =>
             \A i \in 1..Len(folders) :
                 folders[i].id = ret.arg[1] =>
                     /\ ret.arg[2] \notin DOMAIN folders[i].notes
                     /\ ret.arg[2] \notin Elements(folders[i].businessIds))
    /\ [][ (ret'.op = "removeBookmark" /\ FindIndex(folders, ret'.arg[1]) # 0)
           => LET i == FindIndex(folders, ret'.arg[1])
              IN  /\ DOMAIN folders'[i].notes = (DOMAIN folders[i].notes) \ {ret'.arg[2]}
                  /\ Elements(folders'[i].businessIds) =
                        Elements(folders[i].businessIds) \ {ret'.arg[2]}
         ]_vars

\* removeBookmark ran on the default folder, whose other bookmark still has
\* its note
BookmarkRemovedNoteKept ==
    /\ ret.op = "removeBookmark" /\ ret.arg = <<"default", "1">>
    /\ Len(folders) >= 1 /\ folders[1].id = "default"
    /\ folders[1].businessIds = <<"2">>
    /\ DOMAIN folders[1].notes = {"2"}

\* C10: once initializeData has run on empty storage a folder with id
\* "default" exists in every later state, and deleteBookmarkFolder("default")
\* leaves the stored folder list unchanged.
DefaultFolderAlwaysExists ==
    /\ [](Mounted => \E i \in 1..Len(folders) : folders[i].id = "default")
    /\ [][ (ret'.op = "deleteBookmarkFolder" /\ ret'.arg = "default")
           => folders' = folders ]_vars

\* deleteBookmarkFolder("default") ran while a second folder and a bookmark
\* in the default folder existed
DeleteDefaultAttempted ==
    /\ ret.op = "deleteBookmarkFolder" /\ ret.arg = "default"
    /\ Len(folders) = 2
    /\ folders[1].id = "default"
    /\ folders[1].businessIds # <<>>

\* C11: no folder's businessIds contains a business id twice; addBookmark of
\* an id that is already in the folder leaves the stored folders unchanged,
\* and addBookmark of a new id appends it exactly once.
NoDuplicateBookmarks ==
    /\ [](\A i \in 1..Len(folders) :
             \A j \in 1..Len(folders[i].businessIds) :
                 \A k \in 1..Len(folders[i].businessIds) :
                     folders[i].businessIds[j] = folders[i].businessIds[k] => j = k)
    /\ [][ (ret'.op = "addBookmark" /\ FindIndex(folders, ret'.arg[1]) # 0)
           => LET i == FindIndex(folders, ret'.arg[1])
                  ids == folders[i].businessIds
              IN  IF ret'.arg[2] \in Elements(ids)
                  THEN folders' = folders
                  ELSE folders' = [folders EXCEPT ![i].businessIds = ids \o <<ret'.arg[2]>>]
         ]_vars

\* addBookmark("default", "1") ran on a folder that already held 1 and 2 in
\* that order
BookmarkAddedTwice ==
    /\ ret.op = "addBookmark" /\ ret.arg = <<"default", "1">>
    /\ Len(folders) >= 1 /\ folders[1].id = "default"
    /\ folders[1].businessIds = <<"1", "2">>

(***************************************************************************)
(* Specification of the whole store: every mutating operation, each with   *)
(* one or two inputs, and the reload of the page.                          *)
(***************************************************************************)
StoreAddReview ==
    /\ Mounted
    /\ Len(Added) < MaxStoreAdded
    /\ \E c \in RateComments : addReview(ReviewInput("1", 9, c))

StoreMarkHelpful ==
    /\ Mounted
    /\ \E id \in HelpfulIds :
          /\ LET i == FindIndex(reviews, id)
             IN  i # 0 => reviews[i].helpful < BaseHelpful(id) + MaxMarks
          /\ markReviewHelpful(id)

StoreRedeem ==
    /\ Mounted
    /\ DealById("d1").redemptions < 45 + MaxStoreRedeems
    /\ redeemDeal("d1")

StoreBookmark ==
    /\ Mounted
    /\ \/ addBookmark("default", "1")
       \/ removeBookmark("default", "1")
       \/ updateBookmarkNote("default", "1", "call first")

StoreFolder ==
    /\ Mounted
    /\ \/ /\ Len(folders) <= MaxFolders
          /\ uuid < MaxStoreAdded + MaxFolders
          /\ createBookmarkFolder("Lunch", "#ef4444")
       \/ \E f \in FolderIdInputs : deleteBookmarkFolder(f)

NextStore ==
    \/ initializeData
    \/ StoreAddReview
    \/ StoreMarkHelpful
    \/ StoreRedeem
    \/ StoreBookmark
    \/ StoreFolder
    \/ completeOnboarding
    \/ HourPasses

SpecStore == InitReviews /\ [][NextStore]_vars

\* C12: initializeData leaves the stored value of every collection whose key
\* is present unchanged, after any sequence of store mutations, and writes
\* the seed only for the keys that are absent; a second call changes nothing.
InitializeDataNeverOverwrites ==
    [][ ret'.op = "initializeData"
        => /\ businesses' = IF STORAGE_KEYS.BUSINESSES \in stored THEN businesses
                            ELSE generateMockBusinesses
           /\ reviews' = IF STORAGE_KEYS.REVIEWS \in stored THEN reviews
                         ELSE generateMockReviews
           /\ deals' = IF STORAGE_KEYS.DEALS \in stored THEN deals
                       ELSE generateMockDeals(now)
           /\ folders' = IF STORAGE_KEYS.BOOKMARKS \in stored THEN folders
                         ELSE <<DefaultFolder>>
           /\ session' = IF STORAGE_KEYS.SESSION \in stored THEN session
                         ELSE NewSession
           /\ stored \subseteq stored'
      ]_vars

\* initializeData ran again on a store that holds an added review, a helpful
\* mark, a redemption, a bookmark and a changed session
ReloadedAfterMutations ==
    /\ ret.op = "initializeData"
    /\ Len(Added) = 1
    /\ reviews[Len(reviews) - Len(generateMockReviews) + 1].helpful > 24
    /\ DealById("d1").redemptions > 45
    /\ folders[1].businessIds = <<"1">>
    /\ session.onboardingComplete /\ session.reviewsThisHour = 1

(***************************************************************************)
(* Properties of the review list.                                          *)
(***************************************************************************)
\* C13 as stated: of any two stored reviews the one at the lower index has a
\* createdAt that is not earlier.
ReviewsMostRecentFirst ==
    \A i \in 1..Len(reviews) : \A j \in 1..Len(reviews) :
        i < j => reviews[i].createdAt >= reviews[j].createdAt

\* C13 as amended: a successful addReview puts the new review at index 0
\* with helpful = 0 and verified = false, and of any two stored reviews of
\* the same business the one at the lower index has a createdAt that is not
\* earlier.
ReviewsMostRecentFirstPerBusiness ==
    /\ (ret.op = "addReview" /\ ret.ok) =>
          /\ reviews # <<>>
          /\ reviews[1].businessId = ret.arg.businessId
          /\ reviews[1].rating = ret.arg.rating
          /\ reviews[1].createdAt = now
          /\ reviews[1].helpful = 0
          /\ reviews[1].verified = FALSE
    /\ \A i \in 1..Len(reviews) : \A j \in 1..Len(reviews) :
          (i < j /\ reviews[i].businessId = reviews[j].businessId)
              => reviews[i].createdAt >= reviews[j].createdAt

\* two reviews of business 1 were added an hour apart, in front of the seed
\* reviews of that business
TwoReviewsAddedInOrder ==
    /\ ret.op = "addReview" /\ ret.ok
    /\ Len(Added) >= 2
    /\ Added[1].businessId = "1" /\ Added[2].businessId = "1"
    /\ Added[1].createdAt > Added[2].createdAt

\* C14: a review that is in the store stays there in every later state with
\* the same businessId, userId, userName, rating, comment, createdAt and
\* verified, and its helpful counter never decreases.
ReviewsNeverDeletedOrEdited ==
    [][ \A i \in 1..Len(reviews) :
          \E j \in 1..Len(reviews') :
              /\ reviews'[j].id = reviews[i].id
              /\ [reviews'[j] EXCEPT !.helpful = 0] = [reviews[i] EXCEPT !.helpful = 0]
              /\ reviews'[j].helpful >= reviews[i].helpful
      ]_vars

\* a seed review and an added review were both marked helpful, and the page
\* was then reloaded
MarkedReviewsSurviveReload ==
    /\ ret.op = "initializeData"
    /\ Len(Added) = 1
    /\ Added[1].helpful > 0
    /\ reviews[FindIndex(reviews, "r1")].helpful > BaseHelpful("r1")

\* C15: markReviewHelpful(id) on an existing review increases the helpful
\* counter of that review by exactly 1, every time it is called, and leaves
\* every other review and every other collection unchanged; it changes
\* nothing when no review has that id.
MarkHelpfulAddsOne ==
    [][ ret'.op = "markReviewHelpful"
        => /\ UNCHANGED <<stored, businesses, folders, deals, session, now, uuid>>
           /\ Len(reviews') = Len(reviews)
           /\ \A i \in 1..Len(reviews) :
                 IF reviews[i].id = ret'.arg
                 THEN reviews'[i] = [reviews[i] EXCEPT !.helpful = reviews[i].helpful + 1]
                 ELSE reviews'[i] = reviews[i]
           /\ ret'.ok <=> \E i \in 1..Len(reviews) : reviews[i].id = ret'.arg
      ]_vars

\* markReviewHelpful("r1") ran for the second time
MarkedHelpfulTwice ==
    /\ ret.op = "markReviewHelpful" /\ ret.arg = "r1"
    /\ reviews # <<>>
    /\ reviews[FindIndex(reviews, "r1")].helpful = BaseHelpful("r1") + 2

(***************************************************************************)
(* The texts and the opening hours of the seed businesses, as sequences of *)
(* characters.  No operation changes them, so they are kept beside the     *)
(* stored records, by business id.  A day whose entry is null has no field.*)
(***************************************************************************)
BusinessText ==
    "1" :>
      [name |->
         <<"T", "h", "e", " ", "R", "u", "s", "t", "i", "c", " ", "S", "p", "o", "o", "n">>,
       description |->
         <<"F", "a", "r", "m", "-", "t", "o", "-", "t", "a", "b", "l", "e", " ", "d", "i", "n", "i",
           "n", "g", " ", "f", "e", "a", "t", "u", "r", "i", "n", "g", " ", "l", "o", "c", "a",
           "l", "l", "y", " ", "s", "o", "u", "r", "c", "e", "d", " ", "i", "n", "g", "r", "e",
           "d", "i", "e", "n", "t", "s", " ", "a", "n", "d", " ", "s", "e", "a", "s", "o", "n",
           "a", "l", " ", "m", "e", "n", "u", "s", ".", " ", "O", "u", "r", " ", "c", "h", "e",
           "f", "s", " ", "c", "r", "e", "a", "t", "e", " ", "i", "n", "n", "o", "v", "a", "t",
           "i", "v", "e", " ", "d", "i", "s", "h", "e", "s", " ", "t", "h", "a", "t", " ", "c",
           "e", "l", "e", "b", "r", "a", "t", "e", " ", "t", "h", "e", " ", "f", "l", "a", "v",
           "o", "r", "s", " ", "o", "f", " ", "o", "u", "r", " ", "c", "o", "m", "m", "u", "n",
           "i", "t", "y", ".">>,
       tags |->
         <<<<"F", "a", "r", "m", "-", "t", "o", "-", "t", "a", "b", "l", "e">>,
           <<"D", "a", "t", "e", " ", "N", "i", "g", "h", "t">>,
           <<"O", "u", "t", "d", "o", "o", "r", " ", "S", "e", "a", "t", "i", "n", "g">>>>]
  @@
    "2" :>
      [name |->
         <<"B", "e", "a", "n", " ", "&", " ", "B", "r", "e", "w", " ", "C", "o", "f", "f", "e", "e",
           " ", "H", "o", "u", "s", "e">>,
       description |->
         <<"A", "r", "t", "i", "s", "a", "n", " ", "c", "o", "f", "f", "e", "e", " ", "r", "o", "a",
           "s", "t", "e", "d", " ", "i", "n", "-", "h", "o", "u", "s", "e", " ", "w", "i", "t",
           "h", " ", "c", "o", "z", "y", " ", "a", "t", "m", "o", "s", "p", "h", "e", "r", "e",
           " ", "p", "e", "r", "f", "e", "c", "t", " ", "f", "o", "r", " ", "s", "t", "u", "d",
           "y", "i", "n", "g", " ", "o", "r", " ", "c", "a", "t", "c", "h", "i", "n", "g", " ",
           "u", "p", " ", "w", "i", "t", "h", " ", "f", "r", "i", "e", "n", "d", "s", ".", " ",
           "W", "e", " ", "a", "l", "s", "o", " ", "s", "e", "r", "v", "e", " ", "f", "r", "e",
           "s", "h", " ", "p", "a", "s", "t", "r", "i", "e", "s", " ", "d", "a", "i", "l", "y",
           ".">>,
       tags |->
         <<<<"W", "i", "F", "i">>,
           <<"S", "t", "u", "d", "y", " ", "S", "p", "o", "t">>,
           <<"P", "e", "t", " ", "F", "r", "i", "e", "n", "d", "l", "y">>>>]
  @@
    "3" :>
      [name |->
         <<"S", "w", "e", "e", "t", " ", "D", "e", "l", "i", "g", "h", "t", "s", " ", "B", "a", "k",
           "e", "r", "y">>,
       description |->
         <<"F", "a", "m", "i", "l", "y", "-", "o", "w", "n", "e", "d", " ", "b", "a", "k", "e", "r",
           "y", " ", "s", "p", "e", "c", "i", "a", "l", "i", "z", "i", "n", "g", " ", "i", "n",
           " ", "c", "u", "s", "t", "o", "m", " ", "c", "a", "k", "e", "s", ",", " ", "f", "r",
           "e", "s", "h", " ", "b", "r", "e", "a", "d", ",", " ", "a", "n", "d", " ", "E", "u",
           "r", "o", "p", "e", "a", "n", " ", "p", "a", "s", "t", "r", "i", "e", "s", " ", "m",
           "a", "d", "e", " ", "f", "r", "o", "m", " ", "s", "c", "r", "a", "t", "c", "h", " ",
           "e", "v", "e", "r", "y", " ", "m", "o", "r", "n", "i", "n", "g", ".">>,
       tags |->
         <<<<"C", "u", "s", "t", "o", "m", " ", "C", "a", "k", "e", "s">>,
           <<"G", "l", "u", "t", "e", "n", "-", "F", "r", "e", "e", " ", "O", "p", "t", "i", "o", "n",
             "s">>,
           <<"W", "e", "d", "d", "i", "n", "g", " ", "C", "a", "k", "e", "s">>>>]
  @@
    "4" :>
      [name |->
         <<"T", "e", "c", "h", " ", "H", "a", "v", "e", "n", " ", "E", "l", "e", "c", "t", "r", "o",
           "n", "i", "c", "s">>,
       description |->
         <<"Y", "o", "u", "r", " ", "l", "o", "c", "a", "l", " ", "d", "e", "s", "t", "i", "n", "a",
           "t", "i", "o", "n", " ", "f", "o", "r", " ", "t", "h", "e", " ", "l", "a", "t", "e",
           "s", "t", " ", "g", "a", "d", "g", "e", "t", "s", ",", " ", "c", "o", "m", "p", "u",
           "t", "e", "r", " ", "r", "e", "p", "a", "i", "r", "s", ",", " ", "a", "n", "d", " ",
           "t", "e", "c", "h", " ", "s", "u", "p", "p", "o", "r", "t", ".", " ", "W", "e", " ",
           "o", "f", "f", "e", "r", " ", "p", "e", "r", "s", "o", "n", "a", "l", "i", "z", "e",
           "d", " ", "s", "e", "r", "v", "i", "c", "e", " ", "t", "h", "a", "t", " ", "b", "i",
           "g", " ", "b", "o", "x", " ", "s", "t", "o", "r", "e", "s", " ", "c", "a", "n", "n",
           "o", "t", " ", "m", "a", "t", "c", "h", ".">>,
       tags |->
         <<<<"R", "e", "p", "a", "i", "r", "s">>,
           <<"C", "u", "s", "t", "o", "m", " ", "B", "u", "i", "l", "d", "s">>,
           <<"T", "r", "a", "d", "e", "-", "I", "n", "s">>>>]
  @@
    "5" :>
      [name |->
         <<"P", "a", "g", "e", " ", "T", "u", "r", "n", "e", "r", " ", "B", "o", "o", "k", "s">>,
       description |->
         <<"I", "n", "d", "e", "p", "e", "n", "d", "e", "n", "t", " ", "b", "o", "o", "k", "s", "t",
           "o", "r", "e", " ", "w", "i", "t", "h", " ", "c", "u", "r", "a", "t", "e", "d", " ",
           "s", "e", "l", "e", "c", "t", "i", "o", "n", "s", ",", " ", "r", "a", "r", "e", " ",
           "f", "i", "n", "d", "s", ",", " ", "a", "n", "d", " ", "r", "e", "g", "u", "l", "a",
           "r", " ", "a", "u", "t", "h", "o", "r", " ", "e", "v", "e", "n", "t", "s", ".", " ",
           "S", "u", "p", "p", "o", "r", "t", "i", "n", "g", " ", "l", "o", "c", "a", "l", " ",
           "r", "e", "a", "d", "e", "r", "s", " ", "s", "i", "n", "c", "e", " ", "1", "9", "8",
           "5", ".">>,
       tags |->
         <<<<"A", "u", "t", "h", "o", "r", " ", "E", "v", "e", "n", "t", "s">>,
           <<"K", "i", "d", "s", " ", "S", "e", "c", "t", "i", "o", "n">>,
           <<"B", "o", "o", "k", " ", "C", "l", "u", "b">>>>]
  @@
    "6" :>
      [name |->
         <<"B", "l", "o", "o", "m", " ", "B", "o", "u", "t", "i", "q", "u", "e">>,
       description |->
         <<"T", "r", "e", "n", "d", "y", " ", "c", "l", "o", "t", "h", "i", "n", "g", " ", "a", "n",
           "d", " ", "a", "c", "c", "e", "s", "s", "o", "r", "i", "e", "s", " ", "f", "e", "a",
           "t", "u", "r", "i", "n", "g", " ", "l", "o", "c", "a", "l", " ", "d", "e", "s", "i",
           "g", "n", "e", "r", "s", " ", "a", "n", "d", " ", "s", "u", "s", "t", "a", "i", "n",
           "a", "b", "l", "e", " ", "f", "a", "s", "h", "i", "o", "n", ".", " ", "F", "i", "n",
           "d", " ", "y", "o", "u", "r", " ", "u", "n", "i", "q", "u", "e", " ", "s", "t", "y",
           "l", "e", " ", "w", "i", "t", "h", " ", "o", "u", "r", " ", "p", "e", "r", "s", "o",
           "n", "a", "l", "i", "z", "e", "d", " ", "s", "t", "y", "l", "i", "n", "g", " ", "s",
           "e", "r", "v", "i", "c", "e", "s", ".">>,
       tags |->
         <<<<"S", "u", "s", "t", "a", "i", "n", "a", "b", "l", "e">>,
           <<"L", "o", "c", "a", "l", " ", "D", "e", "s", "i", "g", "n", "e", "r", "s">>,
           <<"P", "e", "r", "s", "o", "n", "a", "l", " ", "S", "t", "y", "l", "i", "n", "g">>>>]
  @@
    "7" :>
      [name |->
         <<"W", "e", "l", "l", "n", "e", "s", "s", " ", "C", "e", "n", "t", "e", "r", " ", "&", " ",
           "S", "p", "a">>,
       description |->
         <<"F", "u", "l", "l", "-", "s", "e", "r", "v", "i", "c", "e", " ", "s", "p", "a", " ", "o",
           "f", "f", "e", "r", "i", "n", "g", " ", "m", "a", "s", "s", "a", "g", "e", " ", "t",
           "h", "e", "r", "a", "p", "y", ",", " ", "f", "a", "c", "i", "a", "l", "s", ",", " ",
           "a", "n", "d", " ", "h", "o", "l", "i", "s", "t", "i", "c", " ", "w", "e", "l", "l",
           "n", "e", "s", "s", " ", "t", "r", "e", "a", "t", "m", "e", "n", "t", "s", ".", " ",
           "E", "s", "c", "a", "p", "e", " ", "t", "h", "e", " ", "e", "v", "e", "r", "y", "d",
           "a", "y", " ", "a", "n", "d", " ", "f", "i", "n", "d", " ", "y", "o", "u", "r", " ",
           "i", "n", "n", "e", "r", " ", "p", "e", "a", "c", "e", ".">>,
       tags |->
         <<<<"M", "a", "s", "s", "a", "g", "e">>,
           <<"F", "a", "c", "i", "a", "l", "s">>,
           <<"C", "o", "u", "p", "l", "e", "s", " ", "P", "a", "c", "k", "a", "g", "e", "s">>>>]
  @@
    "8" :>
      [name |->
         <<"Q", "u", "i", "c", "k", " ", "F", "i", "x", " ", "A", "u", "t", "o", " ", "C", "a", "r",
           "e">>,
       description |->
         <<"H", "o", "n", "e", "s", "t", ",", " ", "r", "e", "l", "i", "a", "b", "l", "e", " ", "a",
           "u", "t", "o", " ", "r", "e", "p", "a", "i", "r", " ", "w", "i", "t", "h", " ", "t",
           "r", "a", "n", "s", "p", "a", "r", "e", "n", "t", " ", "p", "r", "i", "c", "i", "n",
           "g", ".", " ", "F", "r", "o", "m", " ", "o", "i", "l", " ", "c", "h", "a", "n", "g",
           "e", "s", " ", "t", "o", " ", "e", "n", "g", "i", "n", "e", " ", "r", "e", "b", "u",
           "i", "l", "d", "s", ",", " ", "w", "e", " ", "t", "r", "e", "a", "t", " ", "e", "v",
           "e", "r", "y", " ", "c", "a", "r", " ", "l", "i", "k", "e", " ", "o", "u", "r", " ",
           "o", "w", "n", ".">>,
       tags |->
         <<<<"F", "r", "e", "e", " ", "E", "s", "t", "i", "m", "a", "t", "e", "s">>,
           <<"L", "o", "a", "n", "e", "r", " ", "C", "a", "r", "s">>,
           <<"S", "a", "m", "e", " ", "D", "a", "y", " ", "S", "e", "r", "v", "i", "c", "e">>>>]
  @@
    "9" :>
      [name |->
         <<"H", "a", "r", "m", "o", "n", "y", " ", "M", "u", "s", "i", "c", " ", "S", "t", "u", "d",
           "i", "o">>,
       description |->
         <<"M", "u", "s", "i", "c", " ", "l", "e", "s", "s", "o", "n", "s", " ", "f", "o", "r", " ",
           "a", "l", "l", " ", "a", "g", "e", "s", " ", "a", "n", "d", " ", "s", "k", "i", "l",
           "l", " ", "l", "e", "v", "e", "l", "s", ".", " ", "L", "e", "a", "r", "n", " ", "p",
           "i", "a", "n", "o", ",", " ", "g", "u", "i", "t", "a", "r", ",", " ", "v", "i", "o",
           "l", "i", "n", ",", " ", "d", "r", "u", "m", "s", ",", " ", "a", "n", "d", " ", "v",
           "o", "i", "c", "e", " ", "f", "r", "o", "m", " ", "e", "x", "p", "e", "r", "i", "e",
           "n", "c", "e", "d", " ", "i", "n", "s", "t", "r", "u", "c", "t", "o", "r", "s", " ",
           "i", "n", " ", "a", " ", "s", "u", "p", "p", "o", "r", "t", "i", "v", "e", " ", "e",
           "n", "v", "i", "r", "o", "n", "m", "e", "n", "t", ".">>,
       tags |->
         <<<<"A", "l", "l", " ", "A", "g", "e", "s">>,
           <<"R", "e", "c", "i", "t", "a", "l", "s">>,
           <<"G", "r", "o", "u", "p", " ", "L", "e", "s", "s", "o", "n", "s">>>>]
  @@
    "10" :>
      [name |->
         <<"F", "i", "t", "L", "i", "f", "e", " ", "G", "y", "m", " ", "&", " ", "T", "r", "a", "i",
           "n", "i", "n", "g">>,
       description |->
         <<"S", "t", "a", "t", "e", "-", "o", "f", "-", "t", "h", "e", "-", "a", "r", "t", " ", "f",
           "i", "t", "n", "e", "s", "s", " ", "f", "a", "c", "i", "l", "i", "t", "y", " ", "w",
           "i", "t", "h", " ", "p", "e", "r", "s", "o", "n", "a", "l", " ", "t", "r", "a", "i",
           "n", "i", "n", "g", ",", " ", "g", "r", "o", "u", "p", " ", "c", "l", "a", "s", "s",
           "e", "s", ",", " ", "a", "n", "d", " ", "n", "u", "t", "r", "i", "t", "i", "o", "n",
           " ", "c", "o", "a", "c", "h", "i", "n", "g", ".", " ", "Y", "o", "u", "r", " ", "j",
           "o", "u", "r", "n", "e", "y", " ", "t", "o", " ", "b", "e", "t", "t", "e", "r", " ",
           "h", "e", "a", "l", "t", "h", " ", "s", "t", "a", "r", "t", "s", " ", "h", "e", "r",
           "e", ".">>,
       tags |->
         <<<<"P", "e", "r", "s", "o", "n", "a", "l", " ", "T", "r", "a", "i", "n", "i", "n", "g">>,
           <<"2", "4", "/", "7", " ", "A", "c", "c", "e", "s", "s">>,
           <<"G", "r", "o", "u", "p", " ", "C", "l", "a", "s", "s", "e", "s">>>>]
  @@
    "11" :>
      [name |->
         <<"G", "r", "e", "e", "n", " ", "T", "h", "u", "m", "b", " ", "G", "a", "r", "d", "e", "n",
           " ", "C", "e", "n", "t", "e", "r">>,
       description |->
         <<"E", "v", "e", "r", "y", "t", "h", "i", "n", "g", " ", "f", "o", "r", " ", "y", "o", "u",
           "r", " ", "g", "a", "r", "d", "e", "n", ":", " ", "p", "l", "a", "n", "t", "s", ",",
           " ", "t", "o", "o", "l", "s", ",", " ", "s", "o", "i", "l", ",", " ", "a", "n", "d",
           " ", "e", "x", "p", "e", "r", "t", " ", "a", "d", "v", "i", "c", "e", ".", " ", "W",
           "e", " ", "h", "e", "l", "p", " ", "b", "o", "t", "h", " ", "b", "e", "g", "i", "n",
           "n", "e", "r", "s", " ", "a", "n", "d", " ", "e", "x", "p", "e", "r", "i", "e", "n",
           "c", "e", "d", " ", "g", "a", "r", "d", "e", "n", "e", "r", "s", " ", "c", "r", "e",
           "a", "t", "e", " ", "b", "e", "a", "u", "t", "i", "f", "u", "l", " ", "o", "u", "t",
           "d", "o", "o", "r", " ", "s", "p", "a", "c", "e", "s", ".">>,
       tags |->
         <<<<"N", "a", "t", "i", "v", "e", " ", "P", "l", "a", "n", "t", "s">>,
           <<"W", "o", "r", "k", "s", "h", "o", "p", "s">>,
           <<"D", "e", "l", "i", "v", "e", "r", "y">>>>]
  @@
    "12" :>
      [name |->
         <<"B", "r", "i", "g", "h", "t", " ", "M", "i", "n", "d", "s", " ", "T", "u", "t", "o", "r",
           "i", "n", "g">>,
       description |->
         <<"P", "e", "r", "s", "o", "n", "a", "l", "i", "z", "e", "d", " ", "t", "u", "t", "o", "r",
           "i", "n", "g", " ", "f", "o", "r", " ", "K", "-", "1", "2", " ", "s", "t", "u", "d",
           "e", "n", "t", "s", " ", "i", "n", " ", "a", "l", "l", " ", "s", "u", "b", "j", "e",
           "c", "t", "s", ".", " ", "O", "u", "r", " ", "c", "e", "r", "t", "i", "f", "i", "e",
           "d", " ", "t", "e", "a", "c", "h", "e", "r", "s", " ", "h", "e", "l", "p", " ", "s",
           "t", "u", "d", "e", "n", "t", "s", " ", "b", "u", "i", "l", "d", " ", "c", "o", "n",
           "f", "i", "d", "e", "n", "c", "e", " ", "a", "n", "d", " ", "a", "c", "h", "i", "e",
           "v", "e", " ", "a", "c", "a", "d", "e", "m", "i", "c", " ", "s", "u", "c", "c", "e",
           "s", "s", ".">>,
       tags |->
         <<<<"S", "A", "T", " ", "P", "r", "e", "p">>,
           <<"A", "l", "l", " ", "S", "u", "b", "j", "e", "c", "t", "s">>,
           <<"O", "n", "l", "i", "n", "e", " ", "O", "p", "t", "i", "o", "n", "s">>>>]

BusinessHours ==
    "1" :>
      [monday |-> [open |-> <<"1", "1", ":", "0", "0">>, close |-> <<"2", "1", ":", "0", "0">>],
       tuesday |-> [open |-> <<"1", "1", ":", "0", "0">>, close |-> <<"2", "1", ":", "0", "0">>],
       wednesday |-> [open |-> <<"1", "1", ":", "0", "0">>, close |-> <<"2", "1", ":", "0", "0">>],
       thursday |-> [open |-> <<"1", "1", ":", "0", "0">>, close |-> <<"2", "2", ":", "0", "0">>],
       friday |-> [open |-> <<"1", "1", ":", "0", "0">>, close |-> <<"2", "3", ":", "0", "0">>],
       saturday |-> [open |-> <<"1", "0", ":", "0", "0">>, close |-> <<"2", "3", ":", "0", "0">>],
       sunday |-> [open |-> <<"1", "0", ":", "0", "0">>, close |-> <<"2", "0", ":", "0", "0">>]]
  @@
    "2" :>
      [monday |-> [open |-> <<"0", "6", ":", "0", "0">>, close |-> <<"2", "0", ":", "0", "0">>],
       tuesday |-> [open |-> <<"0", "6", ":", "0", "0">>, close |-> <<"2", "0", ":", "0", "0">>],
       wednesday |-> [open |-> <<"0", "6", ":", "0", "0">>, close |-> <<"2", "0", ":", "0", "0">>],
       thursday |-> [open |-> <<"0", "6", ":", "0", "0">>, close |-> <<"2", "0", ":", "0", "0">>],
       friday |-> [open |-> <<"0", "6", ":", "0", "0">>, close |-> <<"2", "1", ":", "0", "0">>],
       saturday |-> [open |-> <<"0", "7", ":", "0", "0">>, close |-> <<"2", "1", ":", "0", "0">>],
       sunday |-> [open |-> <<"0", "7", ":", "0", "0">>, close |-> <<"1", "8", ":", "0", "0">>]]
  @@
    "3" :>
      [monday |-> [open |-> <<"0", "6", ":", "0", "0">>, close |-> <<"1", "8", ":", "0", "0">>],
       tuesday |-> [open |-> <<"0", "6", ":", "0", "0">>, close |-> <<"1", "8", ":", "0", "0">>],
       wednesday |-> [open |-> <<"0", "6", ":", "0", "0">>, close |-> <<"1", "8", ":", "0", "0">>],
       thursday |-> [open |-> <<"0", "6", ":", "0", "0">>, close |-> <<"1", "8", ":", "0", "0">>],
       friday |-> [open |-> <<"0", "6", ":", "0", "0">>, close |-> <<"1", "9", ":", "0", "0">>],
       saturday |-> [open |-> <<"0", "7", ":", "0", "0">>, close |-> <<"1", "7", ":", "0", "0">>]]
  @@
    "4" :>
      [monday |-> [open |-> <<"0", "9", ":", "0", "0">>, close |-> <<"1", "9", ":", "0", "0">>],
       tuesday |-> [open |-> <<"0", "9", ":", "0", "0">>, close |-> <<"1", "9", ":", "0", "0">>],
       wednesday |-> [open |-> <<"0", "9", ":", "0", "0">>, close |-> <<"1", "9", ":", "0", "0">>],
       thursday |-> [open |-> <<"0", "9", ":", "0", "0">>, close |-> <<"1", "9", ":", "0", "0">>],
       friday |-> [open |-> <<"0", "9", ":", "0", "0">>, close |-> <<"2", "0", ":", "0", "0">>],
       saturday |-> [open |-> <<"1", "0", ":", "0", "0">>, close |-> <<"1", "8", ":", "0", "0">>],
       sunday |-> [open |-> <<"1", "2", ":", "0", "0">>, close |-> <<"1", "7", ":", "0", "0">>]]
  @@
    "5" :>
      [monday |-> [open |-> <<"1", "0", ":", "0", "0">>, close |-> <<"1", "8", ":", "0", "0">>],
       tuesday |-> [open |-> <<"1", "0", ":", "0", "0">>, close |-> <<"1", "8", ":", "0", "0">>],
       wednesday |-> [open |-> <<"1", "0", ":", "0", "0">>, close |-> <<"1", "8", ":", "0", "0">>],
       thursday |-> [open |-> <<"1", "0", ":", "0", "0">>, close |-> <<"2", "0", ":", "0", "0">>],
       friday |-> [open |-> <<"1", "0", ":", "0", "0">>, close |-> <<"2", "0", ":", "0", "0">>],
       saturday |-> [open |-> <<"0", "9", ":", "0", "0">>, close |-> <<"1", "9", ":", "0", "0">>],
       sunday |-> [open |-> <<"1", "1", ":", "0", "0">>, close |-> <<"1", "7", ":", "0", "0">>]]
  @@
    "6" :>
      [monday |-> [open |-> <<"1", "0", ":", "0", "0">>, close |-> <<"1", "9", ":", "0", "0">>],
       tuesday |-> [open |-> <<"1", "0", ":", "0", "0">>, close |-> <<"1", "9", ":", "0", "0">>],
       wednesday |-> [open |-> <<"1", "0", ":", "0", "0">>, close |-> <<"1", "9", ":", "0", "0">>],
       thursday |-> [open |-> <<"1", "0", ":", "0", "0">>, close |-> <<"2", "0", ":", "0", "0">>],
       friday |-> [open |-> <<"1", "0", ":", "0", "0">>, close |-> <<"2", "0", ":", "0", "0">>],
       saturday |-> [open |-> <<"1", "0", ":", "0", "0">>, close |-> <<"1", "8", ":", "0", "0">>],
       sunday |-> [open |-> <<"1", "2", ":", "0", "0">>, close |-> <<"1", "7", ":", "0", "0">>]]
  @@
    "7" :>
      [monday |-> [open |-> <<"0", "9", ":", "0", "0">>, close |-> <<"2", "0", ":", "0", "0">>],
       tuesday |-> [open |-> <<"0", "9", ":", "0", "0">>, close |-> <<"2", "0", ":", "0", "0">>],
       wednesday |-> [open |-> <<"0", "9", ":", "0", "0">>, close |-> <<"2", "0", ":", "0", "0">>],
       thursday |-> [open |-> <<"0", "9", ":", "0", "0">>, close |-> <<"2", "1", ":", "0", "0">>],
       friday |-> [open |-> <<"0", "9", ":", "0", "0">>, close |-> <<"2", "1", ":", "0", "0">>],
       saturday |-> [open |-> <<"0", "8", ":", "0", "0">>, close |-> <<"1", "9", ":", "0", "0">>],
       sunday |-> [open |-> <<"1", "0", ":", "0", "0">>, close |-> <<"1", "8", ":", "0", "0">>]]
  @@
    "8" :>
      [monday |-> [open |-> <<"0", "7", ":", "0", "0">>, close |-> <<"1", "8", ":", "0", "0">>],
       tuesday |-> [open |-> <<"0", "7", ":", "0", "0">>, close |-> <<"1", "8", ":", "0", "0">>],
       wednesday |-> [open |-> <<"0", "7", ":", "0", "0">>, close |-> <<"1", "8", ":", "0", "0">>],
       thursday |-> [open |-> <<"0", "7", ":", "0", "0">>, close |-> <<"1", "8", ":", "0", "0">>],
       friday |-> [open |-> <<"0", "7", ":", "0", "0">>, close |-> <<"1", "8", ":", "0", "0">>],
       saturday |-> [open |-> <<"0", "8", ":", "0", "0">>, close |-> <<"1", "4", ":", "0", "0">>]]
  @@
    "9" :>
      [monday |-> [open |-> <<"1", "4", ":", "0", "0">>, close |-> <<"2", "1", ":", "0", "0">>],
       tuesday |-> [open |-> <<"1", "4", ":", "0", "0">>, close |-> <<"2", "1", ":", "0", "0">>],
       wednesday |-> [open |-> <<"1", "4", ":", "0", "0">>, close |-> <<"2", "1", ":", "0", "0">>],
       thursday |-> [open |-> <<"1", "4", ":", "0", "0">>, close |-> <<"2", "1", ":", "0", "0">>],
       friday |-> [open |-> <<"1", "4", ":", "0", "0">>, close |-> <<"2", "0", ":", "0", "0">>],
       saturday |-> [open |-> <<"0", "9", ":", "0", "0">>, close |-> <<"1", "7", ":", "0", "0">>]]
  @@
    "10" :>
      [monday |-> [open |-> <<"0", "5", ":", "0", "0">>, close |-> <<"2", "3", ":", "0", "0">>],
       tuesday |-> [open |-> <<"0", "5", ":", "0", "0">>, close |-> <<"2", "3", ":", "0", "0">>],
       wednesday |-> [open |-> <<"0", "5", ":", "0", "0">>, close |-> <<"2", "3", ":", "0", "0">>],
       thursday |-> [open |-> <<"0", "5", ":", "0", "0">>, close |-> <<"2", "3", ":", "0", "0">>],
       friday |-> [open |-> <<"0", "5", ":", "0", "0">>, close |-> <<"2", "2", ":", "0", "0">>],
       saturday |-> [open |-> <<"0", "6", ":", "0", "0">>, close |-> <<"2", "0", ":", "0", "0">>],
       sunday |-> [open |-> <<"0", "7", ":", "0", "0">>, close |-> <<"1", "9", ":", "0", "0">>]]
  @@
    "11" :>
      [monday |-> [open |-> <<"0", "8", ":", "0", "0">>, close |-> <<"1", "8", ":", "0", "0">>],
       tuesday |-> [open |-> <<"0", "8", ":", "0", "0">>, close |-> <<"1", "8", ":", "0", "0">>],
       wednesday |-> [open |-> <<"0", "8", ":", "0", "0">>, close |-> <<"1", "8", ":", "0", "0">>],
       thursday |-> [open |-> <<"0", "8", ":", "0", "0">>, close |-> <<"1", "8", ":", "0", "0">>],
       friday |-> [open |-> <<"0", "8", ":", "0", "0">>, close |-> <<"1", "8", ":", "0", "0">>],
       saturday |-> [open |-> <<"0", "8", ":", "0", "0">>, close |-> <<"1", "7", ":", "0", "0">>],
       sunday |-> [open |-> <<"1", "0", ":", "0", "0">>, close |-> <<"1", "6", ":", "0", "0">>]]
  @@
    "12" :>
      [monday |-> [open |-> <<"1", "5", ":", "0", "0">>, close |-> <<"2", "0", ":", "0", "0">>],
       tuesday |-> [open |-> <<"1", "5", ":", "0", "0">>, close |-> <<"2", "0", ":", "0", "0">>],
       wednesday |-> [open |-> <<"1", "5", ":", "0", "0">>, close |-> <<"2", "0", ":", "0", "0">>],
       thursday |-> [open |-> <<"1", "5", ":", "0", "0">>, close |-> <<"2", "0", ":", "0", "0">>],
       friday |-> [open |-> <<"1", "5", ":", "0", "0">>, close |-> <<"1", "9", ":", "0", "0">>],
       saturday |-> [open |-> <<"0", "9", ":", "0", "0">>, close |-> <<"1", "5", ":", "0", "0">>]]

(***************************************************************************)
(* filterBusinesses.  A filter that is not supplied has the value that is  *)
(* falsy in the code: the empty text, the empty list or 0.                 *)
(***************************************************************************)
LowerText(text) == [i \in 1..Len(text) |-> ToLower(text[i])]

\* String.prototype.includes
TextIncludes(text, part) ==
    \E i \in 1..(Len(text) + 1) :
        /\ i + Len(part) - 1 <= Len(text)
        /\ \A k \in 1..Len(part) : text[i + k - 1] = part[k]

\* the texts of the businesses as toLowerCase returns them
LowerBusinessText ==
    [id \in DOMAIN BusinessText |->
        [name |-> LowerText(BusinessText[id].name),
         description |-> LowerText(BusinessText[id].description),
         tags |-> [t \in 1..Len(BusinessText[id].tags) |->
                      LowerText(BusinessText[id].tags[t])]]]

\* a search that looks at the name and the description but not at the tags
MatchesSearchWithoutTags(b, searchLower) ==
    \/ TextIncludes(LowerBusinessText[b.id].name, searchLower)
    \/ TextIncludes(LowerBusinessText[b.id].description, searchLower)

MatchesSearch(b, searchLower) ==
    \/ TextIncludes(LowerBusinessText[b.id].name, searchLower)
    \/ TextIncludes(LowerBusinessText[b.id].description, searchLower)
    \/ \E t \in 1..Len(LowerBusinessText[b.id].tags) :
          TextIncludes(LowerBusinessText[b.id].tags[t], searchLower)

\* a threshold that leaves out the businesses rated exactly minRating
ReachesRatingStrictly(b, minRating) == b.averageRating > minRating

ReachesRating(b, minRating) == b.averageRating >= minRating

\* the businesses left after the five filters
Filtered(bs, filters) ==
    LET afterSearch == IF filters.search # <<>>
                       THEN SelectSeq(bs, LAMBDA b : MatchesSearch(b, LowerText(filters.search)))
                       ELSE bs
        afterCategory == IF filters.category # ""
                         THEN SelectSeq(afterSearch, LAMBDA b : b.category = filters.category)
                         ELSE afterSearch
        afterSubcategory == IF filters.subcategory # ""
                            THEN SelectSeq(afterCategory,
                                           LAMBDA b : b.subcategory = filters.subcategory)
                            ELSE afterCategory
        afterPrice == IF Len(filters.priceLevel) > 0
                      THEN SelectSeq(afterSubcategory,
                                     LAMBDA b : Includes(filters.priceLevel, b.priceLevel))
                      ELSE afterSubcategory
    IN  IF filters.minRating # 0
        THEN SelectSeq(afterPrice, LAMBDA b : ReachesRating(b, filters.minRating))
        ELSE afterPrice

\* the order of the characters in a comparison of names
Collation ==
    <<" ", "&", "-", "0", "1", "2", "3", "4", "5", "6", "7", "8", "9">> \o LowerCase

\* the rank of every character of the names, upper case ranked as lower case
CollationRank ==
    [ch \in Elements(Collation) \cup Elements(UpperCase) |->
        CHOOSE i \in 1..Len(Collation) : Collation[i] = ToLower(ch)]

CharRank(ch) == IF ch \in DOMAIN CollationRank THEN CollationRank[ch] ELSE 0

\* String.prototype.localeCompare: -1, 0 or 1
RECURSIVE localeCompare(_, _)
localeCompare(a, b) ==
    IF a = <<>> /\ b = <<>> THEN 0
    ELSE IF a = <<>> THEN -1
    ELSE IF b = <<>> THEN 1
    ELSE IF CharRank(Head(a)) < CharRank(Head(b)) THEN -1
    ELSE IF CharRank(Head(a)) > CharRank(Head(b)) THEN 1
    ELSE localeCompare(Tail(a), Tail(b))

\* the comparator of the sort
Compare(a, b, filters) ==
    LET order == IF filters.sortOrder = "asc" THEN 1 ELSE -1
    IN  CASE filters.sortBy = "rating" -> (b.averageRating - a.averageRating) * order
          [] filters.sortBy = "reviews" -> (b.totalReviews - a.totalReviews) * order
          [] filters.sortBy = "name" ->
                 localeCompare(BusinessText[a.id].name, BusinessText[b.id].name) * order
          [] filters.sortBy = "price" -> (a.priceLevel - b.priceLevel) * order
          [] OTHER -> 0

\* x put into the sorted list behind every element that does not come after it
RECURSIVE InsertSorted(_, _, _)
InsertSorted(sorted, x, filters) ==
    IF sorted = <<>> THEN <<x>>
    ELSE IF Compare(Head(sorted), x, filters) <= 0
         THEN <<Head(sorted)>> \o InsertSorted(Tail(sorted), x, filters)
         ELSE <<x>> \o sorted

\* Array.prototype.sort, which is stable
RECURSIVE Sort(_, _, _)
Sort(bs, n, filters) ==
    IF n = 0 THEN <<>>
    ELSE InsertSorted(Sort(bs, n - 1, filters), bs[n], filters)

filterBusinesses(filters) ==
    LET bs == Filtered(businesses, filters)
    IN  IF filters.sortBy # "" THEN Sort(bs, Len(bs), filters) ELSE bs

(***************************************************************************)
(* Specification of the queries on the businesses: filterBusinesses is     *)
(* called with every combination of a few values of each filter, on the    *)
(* seed and after reviews have changed a rating.                           *)
(***************************************************************************)
SearchInputs == {<<>>, <<"W", "i", "F", "i">>, <<"s", "p", "a">>}
CategoryInputs == {"", "food"}
SubcategoryInputs == {"", "Cafes"}
PriceLevelInputs == {<<>>, <<2, 3>>}
MinRatingInputs == {0, 48}
SortByInputs == {"", "rating", "reviews", "name", "price"}
SortOrderInputs == {"", "asc", "desc"}

\* every combination of the filters without a sort, and every sort on every
\* combination of category and minimum rating
FilterInputs ==
    {f \in [search : SearchInputs, category : CategoryInputs,
            subcategory : SubcategoryInputs, priceLevel : PriceLevelInputs,
            minRating : MinRatingInputs, sortBy : SortByInputs,
            sortOrder : SortOrderInputs] :
        \/ f.sortBy = "" /\ f.sortOrder = ""
        \/ f.sortBy # "" /\ f.search = <<>> /\ f.subcategory = "" /\ f.priceLevel = <<>>}

FilterBusinesses ==
    \E filters \in FilterInputs :
        /\ ret' = [op |-> "filterBusinesses", ok |-> TRUE, msg |-> "", arg |-> filters,
                   value |-> filterBusinesses(filters)]
        /\ UNCHANGED <<stored, businesses, reviews, folders, deals, session, now, uuid, locationVars, nearbyVars>>

ReviewChangesRating ==
    /\ Mounted
    /\ Len(Added) < MaxStoreAdded
    /\ \E b \in {"2", "7"} : addReview(ReviewInput(b, 1, GoodComment))

NextFilter == initializeData \/ ReviewChangesRating \/ FilterBusinesses

SpecFilter == InitReviews /\ [][NextFilter]_vars

(***************************************************************************)
(* Properties of filterBusinesses.                                         *)
(***************************************************************************)
\* the business passes every filter that is supplied
PassesFilters(b, filters) ==
    /\ filters.search # <<>> =>
          \E text \in {LowerBusinessText[b.id].name, LowerBusinessText[b.id].description}
                         \cup Elements(LowerBusinessText[b.id].tags) :
             \E i \in 0..(Len(text) - Len(filters.search)) :
                SubSeq(text, i + 1, i + Len(filters.search)) = LowerText(filters.search)
    /\ filters.category # "" => b.category = filters.category
    /\ filters.subcategory # "" => b.subcategory = filters.subcategory
    /\ filters.priceLevel # <<>> => b.priceLevel \in Elements(filters.priceLevel)
    /\ filters.minRating # 0 => b.averageRating >= filters.minRating

\* C16: filterBusinesses returns exactly the stored businesses that pass
\* every supplied filter, each once, in storage order when sortBy is absent,
\* and leaves storage unchanged.
FilterReturnsPassingBusinesses ==
    /\ [](ret.op = "filterBusinesses" =>
             /\ Elements(ret.value) =
                   {businesses[i] : i \in {j \in 1..Len(businesses) :
                                              PassesFilters(businesses[j], ret.arg)}}
             /\ Len(ret.value) = Cardinality(Elements(ret.value))
             /\ ret.arg.sortBy = "" =>
                   ret.value = SelectSeq(businesses, LAMBDA b : PassesFilters(b, ret.arg)))
    /\ [][ ret'.op = "filterBusinesses"
           => UNCHANGED <<stored, businesses, reviews, folders, deals, session>> ]_vars

\* a search that only a tag matches, and a threshold that a business meets
\* exactly
FilterMatchedTagAndThreshold ==
    /\ ret.op = "filterBusinesses"
    /\ ret.arg.search = <<"W", "i", "F", "i">>
    /\ ret.arg.category = "food" /\ ret.arg.minRating = 48 /\ ret.arg.sortBy = ""
    /\ Len(ret.value) = 1 /\ ret.value[1].id = "2" /\ ret.value[1].averageRating = 48

\* the sign of the difference of the sort keys of two businesses
KeyDifference(a, b, sortBy) ==
    CASE sortBy = "rating" -> a.averageRating - b.averageRating
      [] sortBy = "reviews" -> a.totalReviews - b.totalReviews
      [] sortBy = "price" -> a.priceLevel - b.priceLevel
      [] sortBy = "name" -> localeCompare(BusinessText[a.id].name, BusinessText[b.id].name)

StoragePosition(b) == CHOOSE i \in 1..Len(businesses) : businesses[i].id = b.id

\* C17: with sortBy and sortOrder supplied the result of filterBusinesses is
\* ordered by the key, non-decreasing for 'asc' and non-increasing for
\* 'desc', and businesses with equal keys keep their storage order.
SortedAsRequested ==
    (ret.op = "filterBusinesses" /\ ret.arg.sortBy # "" /\ ret.arg.sortOrder # "") =>
        \A i, j \in 1..Len(ret.value) :
            i < j =>
              LET d == KeyDifference(ret.value[i], ret.value[j], ret.arg.sortBy)
              IN  /\ ret.arg.sortOrder = "asc" => d <= 0
                  /\ ret.arg.sortOrder = "desc" => d >= 0
                  /\ d = 0 => StoragePosition(ret.value[i]) < StoragePosition(ret.value[j])

(***************************************************************************)
(* Opening hours.                                                          *)
(***************************************************************************)
days == <<"sunday", "monday", "tuesday", "wednesday", "thursday", "friday", "saturday">>

\* Date.prototype.getDay, getHours and getMinutes of the instant t; day 0 of
\* the clock is a Sunday
getDay(t) == (t \div Day) % Len(days)
getHours(t) == (t % Day) \div Hour
getMinutes(t) == ((t % Hour) * 60) \div Hour

\* String.prototype.replace(':', ''): the first colon is removed
RECURSIVE RemoveColon(_)
RemoveColon(text) ==
    IF text = <<>> THEN <<>>
    ELSE IF Head(text) = ":" THEN Tail(text)
    ELSE <<Head(text)>> \o RemoveColon(Tail(text))

Digits == <<"0", "1", "2", "3", "4", "5", "6", "7", "8", "9">>
IsDigit(ch) == \E d \in 1..Len(Digits) : Digits[d] = ch
DigitValue(ch) == (CHOOSE d \in 1..Len(Digits) : Digits[d] = ch) - 1

\* parseInt on a text that starts with a digit: the leading digits, base ten
RECURSIVE ParseDigits(_, _)
ParseDigits(text, acc) ==
    IF text = <<>> \/ ~IsDigit(Head(text)) THEN acc
    ELSE ParseDigits(Tail(text), Len(Digits) * acc + DigitValue(Head(text)))

parseInt(text) == ParseDigits(text, 0)

\* a business that counts as closed at the minute its closing time names
isBusinessOpenBeforeClose(b, t) ==
    LET today == days[getDay(t) + 1]
        week == BusinessHours[b.id]
    IN  IF today \notin DOMAIN week THEN FALSE
        ELSE LET hours == week[today]
                 currentTime == getHours(t) * 100 + getMinutes(t)
                 openTime == parseInt(RemoveColon(hours.open))
                 closeTime == parseInt(RemoveColon(hours.close))
             IN  currentTime >= openTime /\ currentTime < closeTime

isBusinessOpen(b, t) ==
    LET today == days[getDay(t) + 1]
        week == BusinessHours[b.id]
    IN  IF today \notin DOMAIN week THEN FALSE
        ELSE LET hours == week[today]
                 currentTime == getHours(t) * 100 + getMinutes(t)
                 openTime == parseInt(RemoveColon(hours.open))
                 closeTime == parseInt(RemoveColon(hours.close))
             IN  currentTime >= openTime /\ currentTime <= closeTime

IsBusinessOpen ==
    \E i \in 1..Len(businesses) :
        /\ ret' = [op |-> "isBusinessOpen", ok |-> TRUE, msg |-> "",
                   arg |-> businesses[i].id,
                   value |-> isBusinessOpen(businesses[i], now)]
        /\ UNCHANGED <<stored, businesses, reviews, folders, deals, session, now, uuid, locationVars, nearbyVars>>

Week == Len(days) * Day

\* the clock moves on by one tick while the application is open, for one week
ClockTicks ==
    /\ Mounted
    /\ now < ReviewStart + Week
    /\ Advance(1)

NextHours == initializeData \/ IsBusinessOpen \/ ClockTicks

SpecHours == InitReviews /\ [][NextHours]_vars

\* the hours of the business on the weekday of the instant t, as minutes
\* after midnight; <<>> when the business has no entry for that weekday
HoursToday(id, t) ==
    LET name == days[((t \div Day) % 7) + 1]
        Minutes(text) == (10 * DigitValue(text[1]) + DigitValue(text[2])) * 60
                           + 10 * DigitValue(text[4]) + DigitValue(text[5])
    IN  IF name \in DOMAIN BusinessHours[id]
        THEN <<Minutes(BusinessHours[id][name].open), Minutes(BusinessHours[id][name].close)>>
        ELSE <<>>

\* C18: isBusinessOpen is false when the business has no hours entry for the
\* current weekday, and otherwise true exactly when open <= now <= close,
\* both boundaries included.
IsBusinessOpenInclusive ==
    ret.op = "isBusinessOpen" =>
        LET hours == HoursToday(ret.arg, now)
            minute == ((now % Day) * 60) \div Hour
        IN  ret.value = (hours # <<>> /\ hours[1] <= minute /\ minute <= hours[2])

\* business '1' asked on Monday 2026-11-02 at 21:00, its closing time
AskedAtClosingTime ==
    /\ ret.op = "isBusinessOpen" /\ ret.arg = "1"
    /\ now = TimeOf(792, 21, 0)
    /\ ret.value = TRUE

(***************************************************************************)
(* The location context.  Coordinates are in ten-thousandths of a degree.  *)
(***************************************************************************)
DEFAULT_LOCATION == [latitude |-> 407128, longitude |-> -740060]

\* what the browser, the IP lookup and the address search can answer
BrowserPositions == {[lat |-> 340522, lon |-> -1182437]}
IpPositions == {[lat |-> 418781, lon |-> -876298]}
ManualPositions == {[lat |-> 423601, lon |-> -710589], [lat |-> 476062, lon |-> -1223321]}

PERMISSION_DENIED == "PERMISSION_DENIED"
POSITION_UNAVAILABLE == "POSITION_UNAVAILABLE"
TIMEOUT == "TIMEOUT"
ErrorCodes == {PERMISSION_DENIED, POSITION_UNAVAILABLE, TIMEOUT}

errorMessage(code) ==
    CASE code = PERMISSION_DENIED ->
           "Location permission denied. Please enable location access in your browser settings."
      [] code = POSITION_UNAVAILABLE ->
           "Location information is unavailable. Please try again."
      [] code = TIMEOUT -> "Location request timed out. Please try again."
      [] OTHER -> "An unknown error occurred while getting your location."

NotSupportedMessage == "Geolocation is not supported by your browser."

effectiveLat == IF manualLocation # NoLocation THEN manualLocation.lat ELSE geo.latitude
effectiveLon == IF manualLocation # NoLocation THEN manualLocation.lon ELSE geo.longitude

Effective(g, m) ==
    IF m # NoLocation THEN <<m.lat, m.lon>> ELSE <<g.latitude, g.longitude>>

\* the start of fetchBusinesses(lat, lon, radius), up to the request to Geoapify
fetchBusinesses(lat, lon, radius) ==
    /\ isLoadingBusinesses' = TRUE
    /\ businessError' = ""
    /\ fetches' = Append(fetches, [lat |-> lat, lon |-> lon, radius |-> radius,
                                   adapter |-> "geoapify"])
    /\ UNCHANGED osmBusinesses

\* effects that leave a change of the search radius without a fetch
NearbyEffectsOnCoordinates(g2, m2, radius2) ==
    LET before == Effective(geo, manualLocation)
        after == Effective(g2, m2)
        located == after[1] # Null /\ after[2] # Null
    IN  /\ searchRadius' = radius2
        /\ geocodes' = IF located /\ after # before
                       THEN Append(geocodes, [lat |-> after[1], lon |-> after[2]])
                       ELSE geocodes
        /\ IF located /\ after # before
           THEN fetchBusinesses(after[1], after[2], radius2)
           ELSE UNCHANGED <<osmBusinesses, isLoadingBusinesses, businessError, fetches>>
        /\ UNCHANGED locationInfo

\* the effects on the effective coordinates and the search radius, when the
\* state goes to (g2, m2, radius2): a reverse geocoding of new coordinates,
\* and a fetch of the businesses for new coordinates or a new radius
NearbyEffects(g2, m2, radius2) ==
    LET before == Effective(geo, manualLocation)
        after == Effective(g2, m2)
        located == after[1] # Null /\ after[2] # Null
    IN  /\ searchRadius' = radius2
        /\ geocodes' = IF located /\ after # before
                       THEN Append(geocodes, [lat |-> after[1], lon |-> after[2]])
                       ELSE geocodes
        /\ IF located /\ (after # before \/ radius2 # searchRadius)
           THEN fetchBusinesses(after[1], after[2], radius2)
           ELSE UNCHANGED <<osmBusinesses, isLoadingBusinesses, businessError, fetches>>
        /\ UNCHANGED locationInfo

\* an effect that never starts the IP lookup
FallbackEffectNever(g, m, g2, m2) == 0

\* the effect on isLoading, error and manualLocation: the number of IP lookups
\* it starts when the state goes from (g, m) to (g2, m2)
FallbackEffect(g, m, g2, m2) ==
    IF /\ <<g.isLoading, g.error, m>> # <<g2.isLoading, g2.error, m2>>
       /\ ~g2.isLoading /\ g2.error # "" /\ m2 = NoLocation
    THEN 1 ELSE 0

\* a change of the state of the geolocation hook, and the effect that follows
SetGeolocation(g2) ==
    /\ geo' = g2
    /\ pendingLookups' = pendingLookups + FallbackEffect(geo, manualLocation, g2, manualLocation)
    /\ NearbyEffects(g2, manualLocation, searchRadius)
    /\ UNCHANGED <<manualLocation, stored, businesses, reviews, folders, deals, session,
                   now, uuid>>

requestLocation ==
    /\ requested' = requested + 1
    /\ ret' = Void("requestLocation", "")
    /\ IF ~geo.isSupported
       THEN /\ SetGeolocation([geo EXCEPT !.error = NotSupportedMessage, !.isLoading = FALSE])
            /\ UNCHANGED pendingPositions
       ELSE /\ SetGeolocation([geo EXCEPT !.isLoading = TRUE, !.error = ""])
            /\ pendingPositions' = pendingPositions + 1

\* the callbacks of getCurrentPosition
onSuccess(position) ==
    /\ pendingPositions > 0
    /\ pendingPositions' = pendingPositions - 1
    /\ SetGeolocation([geo EXCEPT !.latitude = position.lat, !.longitude = position.lon,
                                  !.error = "", !.isLoading = FALSE])
    /\ ret' = Void("onSuccess", position)
    /\ UNCHANGED requested

onError(code) ==
    /\ pendingPositions > 0
    /\ pendingPositions' = pendingPositions - 1
    /\ SetGeolocation([geo EXCEPT !.error = errorMessage(code), !.isLoading = FALSE])
    /\ ret' = Void("onError", code)
    /\ UNCHANGED requested

\* an IP lookup in flight ends: with the position ipwho.is answers, or with
\* the default location when the answer is a failure or the request throws
fetchIpLocation(success, position) ==
    /\ pendingLookups > 0
    /\ pendingLookups' = pendingLookups - 1
    /\ manualLocation' = IF success THEN position
                         ELSE [lat |-> DEFAULT_LOCATION.latitude,
                               lon |-> DEFAULT_LOCATION.longitude]
    /\ ret' = [op |-> "fetchIpLocation", ok |-> success, msg |-> "", arg |-> position]
    /\ NearbyEffects(geo, manualLocation', searchRadius)
    /\ UNCHANGED <<geo, pendingPositions, requested, stored, businesses, reviews, folders,
                   deals, session, now, uuid>>

useManualLocation(lat, lon) ==
    /\ manualLocation' = [lat |-> lat, lon |-> lon]
    /\ ret' = Void("useManualLocation", [lat |-> lat, lon |-> lon])
    /\ NearbyEffects(geo, manualLocation', searchRadius)
    /\ UNCHANGED <<geo, pendingPositions, pendingLookups, requested, stored, businesses,
                   reviews, folders, deals, session, now, uuid>>

(***************************************************************************)
(* Specification of the location context: the provider mounts, the browser *)
(* and ipwho.is answer, the user enters an address or asks for the current *)
(* location again.                                                         *)
(***************************************************************************)
InitLocation ==
    /\ stored = {} /\ businesses = <<>> /\ reviews = <<>> /\ folders = <<>> /\ deals = <<>>
    /\ session = NewSession /\ now = ReviewStart /\ uuid = 0 /\ ret = NoRet
    /\ geo \in {GeolocationState(isSupported) : isSupported \in BOOLEAN}
    /\ manualLocation = NoLocation
    /\ pendingPositions = 0
    /\ pendingLookups = 0
    /\ requested = 0
    /\ osmBusinesses = <<>>
    /\ isLoadingBusinesses = FALSE
    /\ businessError = ""
    /\ searchRadius = DefaultRadius
    /\ locationInfo = NoInfo
    /\ fetches = <<>>
    /\ geocodes = <<>>

\* the effect that requests the location on mount
MountLocation == requested = 0 /\ requestLocation

\* handleUseCurrentLocation
RefreshLocation == requested > 0 /\ requested < MaxRequests /\ requestLocation

PositionFound == \E position \in BrowserPositions : onSuccess(position)

PositionFailed == \E code \in ErrorCodes : onError(code)

LookupAnswered == \E position \in IpPositions : fetchIpLocation(TRUE, position)

LookupFailed == \E position \in IpPositions : fetchIpLocation(FALSE, position)

\* handleManualLocationSubmit, when the address is found
ManualLocationSubmit ==
    /\ requested > 0
    /\ Len(fetches) < MaxFetches
    /\ \E position \in ManualPositions : useManualLocation(position.lat, position.lon)

NextLocation ==
    \/ MountLocation
    \/ RefreshLocation
    \/ PositionFound
    \/ PositionFailed
    \/ LookupAnswered
    \/ LookupFailed
    \/ ManualLocationSubmit

SpecLocation == InitLocation /\ [][NextLocation]_vars

\* C19: once useManualLocation has set a manual location, the effective
\* coordinates equal it in every later state, whatever the browser or the IP
\* lookup answers afterwards, until the user sets another one.
ManualLocationAlwaysWins ==
    [][ (manualLocation \in ManualPositions /\ ret'.op # "useManualLocation")
          => (effectiveLat' = manualLocation.lat /\ effectiveLon' = manualLocation.lon) ]_vars

\* the callbacks of the browser and the IP lookups in flight end, and the
\* effect on mount runs
SpecLocationLive ==
    /\ InitLocation /\ [][NextLocation]_vars
    /\ WF_vars(MountLocation)
    /\ WF_vars(PositionFound \/ PositionFailed)
    /\ WF_vars(LookupAnswered \/ LookupFailed)

DefaultPosition == [lat |-> DEFAULT_LOCATION.latitude, lon |-> DEFAULT_LOCATION.longitude]

\* C20: from mount the effective coordinates eventually are not null: those
\* of the browser on success, those of the IP lookup after a failure of the
\* browser, the default ones when the IP lookup fails; an IP lookup starts
\* only in a step in which the browser request fails.
LocationEventuallyKnown ==
    /\ <>(effectiveLat # Null /\ effectiveLon # Null)
    /\ [][ (ret'.op = "onSuccess" /\ manualLocation = NoLocation)
             => <<effectiveLat', effectiveLon'>> = <<ret'.arg.lat, ret'.arg.lon>> ]_vars
    /\ [][ ret'.op = "fetchIpLocation"
             => LET position == IF ret'.ok THEN ret'.arg ELSE DefaultPosition
                IN  <<effectiveLat', effectiveLon'>> = <<position.lat, position.lon>> ]_vars
    /\ [][ pendingLookups' > pendingLookups
             => /\ ret'.op \in {"onError", "requestLocation"}
                /\ geo'.error # "" /\ ~geo'.isLoading
                /\ geo'.latitude = geo.latitude ]_vars

\* the browser failed, the IP lookup failed, and the default location is used
DefaultLocationUsed ==
    /\ ret.op = "fetchIpLocation" /\ ~ret.ok
    /\ geo.error # "" /\ geo.latitude = Null
    /\ <<effectiveLat, effectiveLon>> = <<DEFAULT_LOCATION.latitude, DEFAULT_LOCATION.longitude>>

(***************************************************************************)
(* The nearby businesses of the location context.                          *)
(***************************************************************************)
Remove(seq, i) == SubSeq(seq, 1, i - 1) \o SubSeq(seq, i + 1, Len(seq))

\* the businesses an adapter reports for the query of the fetch f; the answer
\* can also be an empty list
Places(adapter, f) ==
    <<[id |-> adapter, lat |-> f.lat, lon |-> f.lon, radius |-> f.radius]>>

AdapterResults(adapter, f) == {<<>>, Places(adapter, f)}

BusinessErrorMessage == "Unable to load nearby businesses. Please try again."

\* a list that takes the answer of a fetch only when the fetch was made for
\* the current coordinates and radius
ResolvedIfCurrent(f, result) ==
    IF <<f.lat, f.lon, f.radius>> = <<effectiveLat, effectiveLon, searchRadius>>
    THEN result ELSE osmBusinesses

\* the list after the fetch f has ended with the answer result
Resolved(f, result) == result

\* the fetch i ends with the answer of the adapter it is waiting for
fetchBusinessesResolved(i, result) ==
    /\ osmBusinesses' = Resolved(fetches[i], result)
    /\ isLoadingBusinesses' = FALSE
    /\ fetches' = Remove(fetches, i)
    /\ ret' = [op |-> "fetchBusinesses", ok |-> TRUE, msg |-> "", arg |-> fetches[i],
               value |-> result]
    /\ UNCHANGED <<businessError, searchRadius, locationInfo, geocodes, locationVars,
                   stored, businesses, reviews, folders, deals, session, now, uuid>>

\* Geoapify fails for the fetch i, which goes on with OpenStreetMap
geoapifyRejected(i) ==
    /\ fetches[i].adapter = "geoapify"
    /\ fetches' = [fetches EXCEPT ![i].adapter = "osm"]
    /\ ret' = [op |-> "fetchGeoapifyBusinesses", ok |-> FALSE, msg |-> "",
               arg |-> fetches[i], value |-> <<>>]
    /\ UNCHANGED <<osmBusinesses, isLoadingBusinesses, businessError, searchRadius,
                   locationInfo, geocodes, locationVars,
                   stored, businesses, reviews, folders, deals, session, now, uuid>>

\* OpenStreetMap fails too for the fetch i
osmRejected(i) ==
    /\ fetches[i].adapter = "osm"
    /\ businessError' = BusinessErrorMessage
    /\ osmBusinesses' = <<>>
    /\ isLoadingBusinesses' = FALSE
    /\ fetches' = Remove(fetches, i)
    /\ ret' = [op |-> "fetchBusinesses", ok |-> FALSE, msg |-> BusinessErrorMessage,
               arg |-> fetches[i], value |-> <<>>]
    /\ UNCHANGED <<searchRadius, locationInfo, geocodes, locationVars,
                   stored, businesses, reviews, folders, deals, session, now, uuid>>

setSearchRadius(radius) ==
    /\ NearbyEffects(geo, manualLocation, radius)
    /\ ret' = Void("setSearchRadius", radius)
    /\ UNCHANGED <<locationVars, stored, businesses, reviews, folders, deals, session,
                   now, uuid>>

refreshBusinesses ==
    /\ IF effectiveLat # Null /\ effectiveLon # Null
       THEN fetchBusinesses(effectiveLat, effectiveLon, searchRadius)
       ELSE UNCHANGED <<osmBusinesses, isLoadingBusinesses, businessError, fetches>>
    /\ ret' = Void("refreshBusinesses", "")
    /\ UNCHANGED <<searchRadius, locationInfo, geocodes, locationVars,
                   stored, businesses, reviews, folders, deals, session, now, uuid>>

\* the label used when the reverse geocoding fails
DefaultInfo == [city |-> "Your Area", state |-> "", displayName |-> "Your Location"]

\* what the reverse geocoding can answer
GeocodeAnswers == {DefaultInfo, [city |-> "Boston", state |-> "MA", displayName |-> "Boston, MA"]}

\* the reverse geocoding i ends
fetchLocationInfo(i, info) ==
    /\ locationInfo' = info
    /\ geocodes' = Remove(geocodes, i)
    /\ ret' = Void("fetchLocationInfo", geocodes[i])
    /\ UNCHANGED <<osmBusinesses, isLoadingBusinesses, businessError, searchRadius, fetches,
                   locationVars,
                   stored, businesses, reviews, folders, deals, session, now, uuid>>

(***************************************************************************)
(* Specification of the nearby businesses: the location context, the       *)
(* search radius, and the answers of the adapters.                         *)
(***************************************************************************)
RadiusInputs == {2000, 8047}

GeoapifyAnswers ==
    \E i \in 1..Len(fetches) :
        /\ fetches[i].adapter = "geoapify"
        /\ \E result \in AdapterResults("geoapify", fetches[i]) :
              fetchBusinessesResolved(i, result)

GeoapifyFails == \E i \in 1..Len(fetches) : geoapifyRejected(i)

OsmAnswers ==
    \E i \in 1..Len(fetches) :
        /\ fetches[i].adapter = "osm"
        /\ \E result \in AdapterResults("osm", fetches[i]) :
              fetchBusinessesResolved(i, result)

OsmFails == \E i \in 1..Len(fetches) : osmRejected(i)

ChangeRadius ==
    /\ Len(fetches) < MaxFetches
    /\ \E radius \in RadiusInputs : setSearchRadius(radius)

RefreshBusinesses == Len(fetches) < MaxFetches /\ refreshBusinesses

LocationInfoArrives ==
    \E i \in 1..Len(geocodes) : \E info \in GeocodeAnswers : fetchLocationInfo(i, info)

\* the location comes from the browser; the radius changes and the adapters
\* answer
NextNearby ==
    \/ MountLocation
    \/ PositionFound
    \/ ChangeRadius
    \/ RefreshBusinesses
    \/ GeoapifyAnswers
    \/ GeoapifyFails
    \/ OsmAnswers
    \/ OsmFails
    \/ LocationInfoArrives

SpecNearby == InitLocation /\ [][NextNearby]_vars

\* C21: a fetch of the nearby businesses that ends after both adapters have
\* failed leaves businessError set, osmBusinesses empty and
\* isLoadingBusinesses false; one that ends with the answer of an adapter
\* leaves businessError null and osmBusinesses equal to that answer.
NearbyFetchEndsConsistent ==
    ret.op = "fetchBusinesses" =>
        IF ret.ok
        THEN businessError = "" /\ osmBusinesses = ret.value
        ELSE businessError # "" /\ osmBusinesses = <<>> /\ ~isLoadingBusinesses

\* C22: the list left by overlapping fetches is the answer of the fetch that
\* ended last, whichever was requested last: every fetch that ends with an
\* answer writes it, also when it was made for another radius or location
\* than the current one.
LastResolvedWins ==
    (ret.op = "fetchBusinesses" /\ ret.ok) => osmBusinesses = ret.value

\* two fetches have ended, the one for the former radius last, and the list
\* shown is the one for the former radius
StaleBusinessesShown ==
    /\ ret.op = "fetchBusinesses" /\ ret.ok
    /\ fetches = <<>>
    /\ ret.arg.radius # searchRadius
    /\ osmBusinesses # <<>> /\ osmBusinesses[1].radius # searchRadius

\* C29: isLoadingBusinesses is true in every state in which a fetch of the
\* nearby businesses is in flight.
LoadingWhileFetching == fetches # <<>> => isLoadingBusinesses

(***************************************************************************)
(* Specification of the effects of the location context: the coordinates   *)
(* come from the browser, the IP lookup and the user, the radius changes,  *)
(* and the requests that start stay in flight.                             *)
(***************************************************************************)
NextEffects ==
    \/ MountLocation
    \/ RefreshLocation
    \/ PositionFound
    \/ PositionFailed
    \/ LookupAnswered
    \/ LookupFailed
    \/ ManualLocationSubmit
    \/ ChangeRadius

SpecEffects == InitLocation /\ [][NextEffects]_vars

\* C23: every change of the effective coordinates starts a reverse geocoding
\* and a fetch of the nearby businesses for the new coordinates at the
\* current radius; every change of the radius while the coordinates are not
\* null starts a fetch; nothing starts while the coordinates are null.
CoordinateChangeStartsFetches ==
    [][ LET lat == effectiveLat'
            lon == effectiveLon'
            fetch == [lat |-> lat, lon |-> lon, radius |-> searchRadius',
                      adapter |-> "geoapify"]
        IN  /\ <<lat, lon>> # <<effectiveLat, effectiveLon>>
                 => /\ geocodes' = Append(geocodes, [lat |-> lat, lon |-> lon])
                    /\ fetches' = Append(fetches, fetch)
            /\ (searchRadius' # searchRadius /\ lat # Null /\ lon # Null)
                 => fetches' = Append(fetches, fetch)
            /\ (lat = Null \/ lon = Null)
                 => fetches' = fetches /\ geocodes' = geocodes ]_vars

\* the radius has changed after the coordinates arrived, and the fetch for the
\* new radius has started behind the one for the coordinates
RadiusChangeStartedFetch ==
    /\ ret.op = "setSearchRadius"
    /\ Len(fetches) = 2
    /\ fetches[1].radius = DefaultRadius
    /\ fetches[2] = [lat |-> effectiveLat, lon |-> effectiveLon, radius |-> searchRadius,
                     adapter |-> "geoapify"]
    /\ searchRadius # DefaultRadius

(***************************************************************************)
(* Reports.                                                                *)
(***************************************************************************)
CATEGORIES ==
    << [id |-> "food", name |-> "Food & Dining"],
       [id |-> "retail", name |-> "Retail"],
       [id |-> "services", name |-> "Services"],
       [id |-> "entertainment", name |-> "Entertainment"],
       [id |-> "education", name |-> "Education"] >>

\* the number that is not a number
NaN == 9999998

\* Math.round(sum / n), which is NaN for 0 / 0
RoundedQuotient(sum, n) == IF n = 0 THEN NaN ELSE (2 * sum + n) \div (2 * n)

CategoryName(id) ==
    IF \E i \in 1..Len(CATEGORIES) : CATEGORIES[i].id = id
    THEN CATEGORIES[CHOOSE i \in 1..Len(CATEGORIES) : CATEGORIES[i].id = id].name
    ELSE id

\* the entries of categoryMap after the first n businesses, in the order in
\* which the categories were met
RECURSIVE CategoryEntries(_, _)
CategoryEntries(bs, n) ==
    IF n = 0 THEN <<>>
    ELSE LET entries == CategoryEntries(bs, n - 1)
             cat == CategoryName(bs[n].category)
             found == {i \in 1..Len(entries) : entries[i].category = cat}
             at == CHOOSE i \in found : TRUE
         IN  IF found = {}
             THEN Append(entries, [category |-> cat, count |-> 1,
                                   totalRating |-> bs[n].averageRating])
             ELSE [entries EXCEPT ![at].count = @ + 1,
                                  ![at].totalRating = @ + bs[n].averageRating]

\* Math.min(Math.floor(r.rating) - 1, 4), for a rating in half stars
Bucket(rating) == IF rating \div 2 - 1 < 4 THEN rating \div 2 - 1 ELSE 4

RatingCounts(rs) ==
    [i \in 1..5 |-> Cardinality({k \in 1..Len(rs) : /\ Bucket(rs[k].rating) >= 0
                                                     /\ Bucket(rs[k].rating) = i - 1})]

\* the pair x put into the list of pairs sorted by descending key, behind
\* every pair whose key is not smaller
RECURSIVE InsertDescending(_, _)
InsertDescending(sorted, x) ==
    IF sorted = <<>> THEN <<x>>
    ELSE IF x.key - Head(sorted).key <= 0
         THEN <<Head(sorted)>> \o InsertDescending(Tail(sorted), x)
         ELSE <<x>> \o sorted

RECURSIVE SortDescending(_, _)
SortDescending(pairs, n) ==
    IF n = 0 THEN <<>> ELSE InsertDescending(SortDescending(pairs, n - 1), pairs[n])

\* [...seq].sort((a, b) => key(b) - key(a)), keys being the keys of seq
SortedByKey(seq, keys) ==
    LET sorted == SortDescending([i \in 1..Len(seq) |-> [key |-> keys[i], of |-> seq[i]]],
                                 Len(seq))
    IN  [i \in 1..Len(seq) |-> sorted[i].of]

\* Array.prototype.slice(0, n)
Slice(seq, n) == SubSeq(seq, 1, IF Len(seq) < n THEN Len(seq) ELSE n)

\* reduce((sum, x) => sum + x, 0) on the first n numbers
RECURSIVE SumOf(_, _)
SumOf(numbers, n) == IF n = 0 THEN 0 ELSE SumOf(numbers, n - 1) + numbers[n]

generateReport(filters) ==
    LET inCategory == IF filters.category # ""
                      THEN SelectSeq(businesses, LAMBDA b : b.category = filters.category)
                      ELSE businesses
        ofCategory == IF filters.category # ""
                      THEN SelectSeq(reviews, LAMBDA r :
                               \E i \in 1..Len(inCategory) : inCategory[i].id = r.businessId)
                      ELSE reviews
        bs == IF filters.minRating # 0
              THEN SelectSeq(inCategory, LAMBDA b : b.averageRating >= filters.minRating)
              ELSE inCategory
        since == IF filters.startDate # NoTime
                 THEN SelectSeq(ofCategory, LAMBDA r : r.createdAt >= filters.startDate)
                 ELSE ofCategory
        rs == IF filters.endDate # NoTime
              THEN SelectSeq(since, LAMBDA r : r.createdAt <= filters.endDate)
              ELSE since
        entries == CategoryEntries(bs, Len(bs))
        ratingCounts == RatingCounts(rs)
        ratings == [i \in 1..Len(bs) |-> bs[i].averageRating]
    IN  [totalBusinesses |-> Len(bs),
         totalReviews |-> Len(rs),
         averageRating |-> RoundedQuotient(SumOf(ratings, Len(bs)), Len(bs)),
         categoryBreakdown |->
             [i \in 1..Len(entries) |->
                 [category |-> entries[i].category, count |-> entries[i].count,
                  avgRating |-> RoundedQuotient(entries[i].totalRating, entries[i].count)]],
         ratingDistribution |-> [i \in 1..5 |-> [rating |-> i, count |-> ratingCounts[i]]],
         topRatedBusinesses |-> Slice(SortedByKey(bs, ratings), 5),
         mostReviewedBusinesses |->
             Slice(SortedByKey(bs, [i \in 1..Len(bs) |-> bs[i].totalReviews]), 5),
         recentReviews |->
             Slice(SortedByKey(rs, [i \in 1..Len(rs) |-> rs[i].createdAt]), 10),
         dealStats |->
             [totalDeals |-> Len(deals),
              totalRedemptions |->
                  SumOf([i \in 1..Len(deals) |-> deals[i].redemptions], Len(deals)),
              avgDiscountPercent |->
                  RoundedQuotient(
                      SumOf([i \in 1..Len(deals) |-> deals[i].discountPercent], Len(deals)),
                      Len(deals))]]

\* what JSON.stringify writes for a number: null for NaN
JsonNumber(x) == IF x = NaN THEN Null ELSE x

JsonBusinesses(bs) ==
    [i \in 1..Len(bs) |->
        [bs[i] EXCEPT !.priceLevel = JsonNumber(@), !.averageRating = JsonNumber(@),
                      !.totalReviews = JsonNumber(@)]]

\* the value that the text of JSON.stringify(data, null, 2) denotes
JSONstringify(data) ==
    [totalBusinesses |-> JsonNumber(data.totalBusinesses),
     totalReviews |-> JsonNumber(data.totalReviews),
     averageRating |-> JsonNumber(data.averageRating),
     categoryBreakdown |->
         [i \in 1..Len(data.categoryBreakdown) |->
             [category |-> data.categoryBreakdown[i].category,
              count |-> JsonNumber(data.categoryBreakdown[i].count),
              avgRating |-> JsonNumber(data.categoryBreakdown[i].avgRating)]],
     ratingDistribution |->
         [i \in 1..Len(data.ratingDistribution) |->
             [rating |-> JsonNumber(data.ratingDistribution[i].rating),
              count |-> JsonNumber(data.ratingDistribution[i].count)]],
     topRatedBusinesses |-> JsonBusinesses(data.topRatedBusinesses),
     mostReviewedBusinesses |-> JsonBusinesses(data.mostReviewedBusinesses),
     recentReviews |->
         [i \in 1..Len(data.recentReviews) |->
             [data.recentReviews[i] EXCEPT !.rating = JsonNumber(@),
                                           !.helpful = JsonNumber(@)]],
     dealStats |->
         [totalDeals |-> JsonNumber(data.dealStats.totalDeals),
          totalRedemptions |-> JsonNumber(data.dealStats.totalRedemptions),
          avgDiscountPercent |-> JsonNumber(data.dealStats.avgDiscountPercent)]]

\* JSON.parse of a text: the value the text denotes
JSONparse(json) == json

\* the JSON branch of exportReport; the CSV branch is not modelled
exportReport(data, format) == CASE format = "json" -> JSONstringify(data)

(***************************************************************************)
(* Specification of the reports: reports are generated and exported on the *)
(* empty storage, on the seed and after reviews have been added.           *)
(***************************************************************************)
ReportFilters ==
    [category : {"", "food", "health"}, minRating : {0, 48, 50},
     startDate : {NoTime, TimeOf(75, 0, 0)}, endDate : {NoTime, TimeOf(78, 0, 0)}]

GenerateReport ==
    \E filters \in ReportFilters :
        /\ ret' = [op |-> "generateReport", ok |-> TRUE, msg |-> "", arg |-> filters,
                   value |-> generateReport(filters)]
        /\ UNCHANGED <<stored, businesses, reviews, folders, deals, session, now, uuid,
                       locationVars, nearbyVars>>

\* a report is generated, exported as JSON, and the text is parsed
ExportReport ==
    \E filters \in ReportFilters :
        /\ ret' = [op |-> "exportReport", ok |-> TRUE, msg |-> "", arg |-> filters,
                   value |-> [data |-> generateReport(filters),
                              parsed |-> JSONparse(exportReport(generateReport(filters),
                                                                "json"))]]
        /\ UNCHANGED <<stored, businesses, reviews, folders, deals, session, now, uuid,
                       locationVars, nearbyVars>>

ReviewForReport ==
    /\ Mounted
    /\ Len(Added) < MaxStoreAdded
    /\ \E rating \in {1, 7} : addReview(ReviewInput("2", rating, GoodComment))

NextReport == initializeData \/ ReviewForReport \/ GenerateReport \/ ExportReport

SpecReport == InitReviews /\ [][NextReport]_vars

\* the bucket of a rating in half stars: its floor, clamped into 1..5
ClampedFloor(rating) ==
    IF rating \div 2 < 1 THEN 1 ELSE IF rating \div 2 > 5 THEN 5 ELSE rating \div 2

\* the reviews that the filters of the report keep
ReportReviews(filters) ==
    SelectSeq(reviews, LAMBDA r :
        /\ filters.category # "" =>
              \E i \in 1..Len(businesses) :
                  businesses[i].id = r.businessId /\ businesses[i].category = filters.category
        /\ filters.startDate # NoTime => r.createdAt >= filters.startDate
        /\ filters.endDate # NoTime => r.createdAt <= filters.endDate)

\* C24: in ratingDistribution the bucket n of 1..5 counts the reviews of the
\* filtered set whose rating has the clamped floor n, so the counts sum to
\* totalReviews.
RatingDistributionCountsEveryReview ==
    ret.op = "generateReport" =>
        LET rs == ReportReviews(ret.arg)
            counts == [n \in 1..5 |-> ret.value.ratingDistribution[n].count]
        IN  /\ \A n \in 1..5 :
                  counts[n] = Cardinality({k \in 1..Len(rs) : ClampedFloor(rs[k].rating) = n})
            /\ SumOf(counts, 5) = ret.value.totalReviews

\* C25: parsing exportReport(generateReport(filters), "json") gives a value
\* equal to the report that generateReport returned.
ReportRoundTrip ==
    ret.op = "exportReport" => ret.value.parsed = ret.value.data

(***************************************************************************)
(* The hash-seeded generators of the Geoapify adapter.  A seed is the      *)
(* sequence of the UTF-16 code units of the string.  A 32-bit integer is   *)
(* kept as its two 16-bit halves [hi, lo] (the two's complement bit        *)
(* pattern), so that every step wraps as the JavaScript operators do.      *)
(***************************************************************************)
Two16 == 65536

Zero32 == [hi |-> 0, lo |-> 0]

\* hash << 5, on the bit pattern
ShiftLeft5(w) ==
    LET l == w.lo * 32
    IN  [hi |-> (w.hi * 32 + l \div Two16) % Two16, lo |-> l % Two16]

\* a - b, wrapped to 32 bits
Minus32(a, b) ==
    LET l == a.lo - b.lo
        borrow == IF l < 0 THEN 1 ELSE 0
    IN  [hi |-> (a.hi - b.hi - borrow) % Two16, lo |-> l % Two16]

\* a + code for one code unit, wrapped to 32 bits
PlusCode32(a, code) ==
    LET l == a.lo + code
    IN  [hi |-> (a.hi + l \div Two16) % Two16, lo |-> l % Two16]

\* the sign bit of the pattern
Negative32(w) == w.hi >= Two16 \div 2

\* the loop of both generators: hash = ((hash << 5) - hash) + charCodeAt(i),
\* then hash |= 0.  The sum is exact in a double, so wrapping it once at
\* hash |= 0 gives the bit pattern that wrapping each step gives.
RECURSIVE HashOf(_, _)
HashOf(seed, n) ==
    IF n = 0 THEN Zero32
    ELSE LET hash == HashOf(seed, n - 1)
         IN  PlusCode32(Minus32(ShiftLeft5(hash), hash), seed[n])

\* hash % m without Math.abs: the remainder has the sign of the hash
RemainderSigned(w, m) ==
    LET mag == IF Negative32(w) THEN Minus32(Zero32, w) ELSE w
        r == ((mag.hi % m) * (Two16 % m) + (mag.lo % m)) % m
    IN  IF Negative32(w) THEN 0 - r ELSE r

\* Math.abs(hash) % m; the magnitude of -2^31 is 2^31, which the halves hold
Remainder(w, m) ==
    LET mag == IF Negative32(w) THEN Minus32(Zero32, w) ELSE w
    IN  ((mag.hi % m) * (Two16 % m) + (mag.lo % m)) % m

\* the rating in tenths: normalize = (Math.abs(hash) % 15) + 35
generateRating(seed) == Remainder(HashOf(seed, Len(seed)), 15) + 35

generateReviewCount(seed) == Remainder(HashOf(seed, Len(seed)), 400) + 10

\* the code units of "0" and "z"
SeedCodes == {48, 122}

MaxSeedLen == 6

Seeds == UNION {[1..n -> SeedCodes] : n \in 0..MaxSeedLen}

GenerateRating ==
    \E seed \in Seeds :
        /\ ret' = [op |-> "generateRating", ok |-> TRUE, msg |-> "", arg |-> seed,
                   value |-> generateRating(seed)]
        /\ UNCHANGED <<stored, businesses, reviews, folders, deals, session, now, uuid,
                       locationVars, nearbyVars>>

GenerateReviewCount ==
    \E seed \in Seeds :
        /\ ret' = [op |-> "generateReviewCount", ok |-> TRUE, msg |-> "", arg |-> seed,
                   value |-> generateReviewCount(seed)]
        /\ UNCHANGED <<stored, businesses, reviews, folders, deals, session, now, uuid,
                       locationVars, nearbyVars>>

NextGenerators == GenerateRating \/ GenerateReviewCount

SpecGenerators == Init /\ [][NextGenerators]_vars

\* the generated rating lies between 3.5 and 5.0 in whole tenths and the
\* generated review count is an integer from 10 to 409
GeneratorsBounded ==
    /\ ret.op = "generateRating" => ret.value \in 35..50
    /\ ret.op = "generateReviewCount" => ret.value \in 10..409

\* a generator called again with the same seed returns the same value
SameSeedSameValue ==
    (ret'.op \in {"generateRating", "generateReviewCount"}
        /\ ret'.op = ret.op /\ ret'.arg = ret.arg)
    => ret'.value = ret.value

\* C26: the hash-seeded generators are deterministic and bounded for every
\* seed, also when the 32-bit hash wrapped to a negative value: the same
\* seed gives the same rating and review count, the rating lies between 3.5
\* and 5.0 in steps of 0.1, and the review count is an integer in [10, 409].
GeneratorsDeterministicAndBounded ==
    []GeneratorsBounded /\ [][SameSeedSameValue]_vars

\* a rating was generated from a seed whose hash wrapped to a negative value
NegativeHashRated ==
    /\ ret.op = "generateRating"
    /\ Negative32(HashOf(ret.arg, Len(ret.arg)))

(***************************************************************************)
(* Specification of the rejections of addReview: reviews are submitted     *)
(* before and after the session exists, with clean and spam comments, at   *)
(* chosen instants.                                                        *)
(***************************************************************************)
SubmitReview ==
    /\ Len(Added) < MaxRateAdded
    /\ \E c \in RateComments : addReview(ReviewInput("1", 10, c))

NextRejections == initializeData \/ SubmitReview \/ TimePasses

SpecRejections == InitReviews /\ [][NextRejections]_vars

\* C27: an addReview that is rejected (no session, rate limit reached, or
\* spam) returns success false with a message and leaves every stored
\* collection and the stored session unchanged, also when at least one hour
\* had passed since the last review, so that the call had reset its own copy
\* of the counter.
RejectedAddReviewChangesNothing ==
    [][(ret'.op = "addReview" /\ ~ret'.ok)
        => /\ ret'.msg \in {NoSessionMessage, RateLimitMessage, SpamMessage}
           /\ UNCHANGED <<stored, businesses, reviews, folders, deals, session>>]_vars

\* a spam comment was rejected more than an hour after the last accepted
\* review, while the stored counter was still positive
SpamRejectedAfterReset ==
    /\ ret.op = "addReview"
    /\ ret.msg = SpamMessage
    /\ session.lastReviewTime # NoTime
    /\ now - session.lastReviewTime >= Hour
    /\ session.reviewsThisHour > 0

(***************************************************************************)
(* toggleBookmark of the application context: the folder it works on is    *)
(* the one with id "default", or the first one; the business is removed    *)
(* from this folder when it is bookmarked anywhere, else added to it.      *)
(* The result records the status that isBookmarked gave before the call.   *)
(***************************************************************************)
DefaultFolderIndex ==
    IF FindIndex(folders, "default") # 0 THEN FindIndex(folders, "default")
    ELSE IF folders # <<>> THEN 1
    ELSE 0

toggleBookmark(businessId) ==
    LET folderIndex == DefaultFolderIndex
    IN  /\ folders' =
              IF folderIndex = 0 THEN folders
              ELSE IF isBookmarked(businessId)
              THEN [folders EXCEPT
                      ![folderIndex].businessIds = SelectSeq(@, LAMBDA id : id # businessId),
                      ![folderIndex].notes = NotesWithout(@, businessId)]
              ELSE IF ~Includes(folders[folderIndex].businessIds, businessId)
              THEN [folders EXCEPT ![folderIndex].businessIds = Append(@, businessId)]
              ELSE folders
        /\ ret' = [op |-> "toggleBookmark", ok |-> TRUE, msg |-> "", arg |-> businessId,
                   value |-> isBookmarked(businessId)]
        /\ UNCHANGED <<stored, businesses, reviews, deals, session, now, uuid,
                       locationVars, nearbyVars>>

ToggleBookmark ==
    /\ Mounted
    /\ \E b \in BookmarkBusinessIds : toggleBookmark(b)

NextToggle == initializeData \/ CreateFolder \/ AddBookmark \/ ToggleBookmark

SpecToggle == InitReviews /\ [][NextToggle]_vars

\* C28: toggleBookmark always flips the bookmarked status of the business:
\* after the call isBookmarked is the opposite of what it was before, in
\* every folder state, also when the business is bookmarked only in a folder
\* other than the default one.
ToggleBookmarkFlips ==
    ret.op = "toggleBookmark" => isBookmarked(ret.arg) # ret.value

(***************************************************************************)
(* The review form: validateReview on the comment as typed, then addReview *)
(* with the trimmed comment.                                               *)
(***************************************************************************)
WhiteSpace == {" ", "\t", "\n"}

RECURSIVE TrimStart(_)
TrimStart(c) ==
    IF c # <<>> /\ Head(c) \in WhiteSpace THEN TrimStart(Tail(c)) ELSE c

RECURSIVE TrimEnd(_)
TrimEnd(c) ==
    IF c # <<>> /\ c[Len(c)] \in WhiteSpace THEN TrimEnd(SubSeq(c, 1, Len(c) - 1)) ELSE c

\* String.prototype.trim
Trim(c) == TrimEnd(TrimStart(c))

MinReviewLength == 10
MaxReviewLength == 500

\* /(.)\1{5,}/ : one character followed by five more of the same, case kept
SixRepeated(c) ==
    \E i \in 1..(Len(c) - 5) :
        /\ c[i] # "\n"
        /\ \A k \in 1..5 : c[i + k] = c[i]

\* /https?:\/\/|www\./i
UrlOrWww(c) ==
    \/ UrlPattern(c)
    \/ \E i \in 1..Len(c) : MatchAt(c, i, <<"w", "w", "w", ".">>)

\* trimmed.match(/[A-Z]/g).length
Capitals(c) == Cardinality({i \in 1..Len(c) : Includes(UpperCase, c[i])})

Invalid(message) == [isValid |-> FALSE, message |-> message]

validateReview(review) ==
    LET trimmed == Trim(review)
    IN  IF trimmed = <<>> THEN Invalid("Review text is required")
        ELSE IF Len(trimmed) < MinReviewLength
        THEN Invalid("Review must be at least 10 characters long")
        ELSE IF Len(trimmed) > MaxReviewLength
        THEN Invalid("Review must be 500 characters or less")
        ELSE IF SixRepeated(trimmed)
        THEN Invalid("Review contains too many repeated characters")
        ELSE IF UrlOrWww(trimmed)
        THEN Invalid("Reviews cannot contain URLs or links")
        ELSE IF HtmlTag(trimmed)
        THEN Invalid("Reviews cannot contain HTML code")
        ELSE IF 10 * Capitals(trimmed) > 7 * Len(trimmed) /\ Len(trimmed) > 20
        THEN Invalid("Please avoid using excessive capital letters")
        ELSE [isValid |-> TRUE, message |-> "Valid review"]

\* handleSubmit of the form, with a display name and a rating that pass
\* their validations: nothing is submitted unless validateReview accepts
\* the comment
handleSubmit(businessId, comment) ==
    IF ~validateReview(comment).isValid
    THEN /\ ret' = [op |-> "handleSubmit", ok |-> FALSE,
                    msg |-> validateReview(comment).message, arg |-> comment]
         /\ UNCHANGED <<stored, businesses, reviews, folders, deals, session, now, uuid,
                        locationVars, nearbyVars>>
    ELSE addReview(ReviewInput(businessId, 10, Trim(comment)))

PaddedComment ==
    <<" ", " ", "g", "r", "e", "a", "t", " ", "f", "o", "o", "d", " ", " ">>
FiveRepeatComment ==
    <<"g", "r", "e", "a", "a", "a", "a", "a", "t", " ", "f", "o", "o", "d">>
SixRepeatComment ==
    <<"g", "r", "e", "a", "a", "a", "a", "a", "a", "t", " ", "f", "o", "o",
      "d">>
MixedCaseRepeatComment ==
    <<"s", "o", "o", "o", "O", "O", " ", "g", "o", "o", "d", " ", "f", "o",
      "o", "d">>
WwwComment ==
    <<"s", "e", "e", " ", "w", "w", "w", ".", "f", "o", "o", "d", ".", "c",
      "o", "m">>
LongUrlComment ==
    <<"s", "e", "e", " ", "h", "t", "t", "p", ":", "/", "/", "f", "o", "o",
      "d", ".", "c", "o", "m">>
LongTagComment ==
    <<"<", "b", ">", "g", "r", "e", "a", "t", "<", "/", "b", ">", " ", "f",
      "o", "o", "d">>
ShoutComment ==
    <<"T", "H", "E", " ", "B", "E", "S", "T", " ", "F", "O", "O", "D", " ",
      "I", "N", " ", "T", "O", "W", "N", " ", "E", "V", "E", "R">>
TooLongComment == [i \in 1..(MaxReviewLength + 1) |-> IF i % 2 = 0 THEN "a" ELSE "b"]

FormComments ==
    {<<>>, GoodComment, RepeatComment, PaddedComment, FiveRepeatComment, SixRepeatComment,
     MixedCaseRepeatComment, WwwComment, LongUrlComment, LongTagComment, ShoutComment,
     TooLongComment}

SubmitForm ==
    /\ Mounted
    /\ Len(Added) < MaxAdded
    /\ \E c \in FormComments : handleSubmit("1", c)

NextForm == initializeData \/ SubmitForm \/ TimePasses

SpecForm == InitReviews /\ [][NextForm]_vars

\* C30: in the review form flow a comment that validateReview accepts is
\* never rejected by addReview as spam: whenever the form has called
\* addReview, none of the three spam patterns matches the comment.
AcceptedCommentIsNotSpam ==
    ret.op = "addReview" => ~spamPatterns(ret.arg.comment)

====
